---- MODULE Spec2Model ----
(***************************************************************************)
(* Model of src/app.py: the HTTP handler api_run, the Execution Supervisor *)
(* execute_code, the Sandbox Runner run_user_code with its tracer, and the *)
(* serializers serialize_reference / sanitize_mapping / capture_stack.     *)
(*                                                                         *)
(* Three specifications share the module:                                  *)
(*   Spec       one POST /api/run request: api_run, execute_code (parent   *)
(*              process) and run_user_code (child process) with the pipe   *)
(*              between them;                                              *)
(*   SpecHeap   one call of tracer over an object graph, followed from one *)
(*              serialize_reference call to the next (sanitize_mapping and *)
(*              capture_stack sharing one heap table), beside a thread of  *)
(*              the guest whose stores land between those calls and inside *)
(*              them;                                                      *)
(*   SpecScope  one call of sanitize_mapping over a binding mapping with   *)
(*              many names, followed in the same way.                      *)
(***************************************************************************)
EXTENDS Integers, Sequences, FiniteSets, TLC

VARIABLES
    \* ---- Spec: request / supervisor / child ----
    body,        \* the request body of POST /api/run
    http,        \* the HTTP response of api_run, or NoResponse
    sup_pc,      \* position of execute_code (parent process)
    result,      \* the TraceResult execute_code returns, or NoValue
    child_pc,    \* position of run_user_code (child process)
    tracing,     \* TRUE while tracer is the main thread's sys.settrace hook
    calls,       \* calls of tracer between its test (line 268) and its append (line 288)
    steps,       \* the list steps: [len |-> Steps recorded, units |-> what they take pickled]
    stdout,      \* units of text in stdout_buffer
    msg,         \* the TraceResult of line 316, sent at line 323; NoValue; or Fragment
    written,     \* units of the pickled message the child has written so far
    inPipe,      \* units written and not yet read by the parent
    got,         \* units of the message the parent has read in recv
    produced,    \* history: recordable events the guest program has produced
    guest,       \* history: how the guest program's run ended
    atExpiry,    \* history: what the child was doing when process.join returned
    aliveSeen,   \* history: what process.is_alive() returned (line 333)
    limitRaised, \* history: tracer raised TraceLimitExceeded (line 269)
    forged,      \* 0, or 1 + the events produced since the guest itself wrote to conn
    \* ---- SpecHeap / SpecScope ----
    graph,       \* the guest's object graph: object number -> [type, items]
    frames,      \* the guest's frames: [chain (innermost first), globals, ops]
    step,        \* the Step the tracer appended, or NoValue
    mapping,     \* a binding mapping (names -> values)
    scope,       \* [result |-> what sanitize_mapping returned], or NoValue
    tcall        \* the call of tracer or sanitize_mapping in hand, or NoValue

procVars == <<body, http, sup_pc, result, child_pc, tracing, calls, steps, stdout, msg,
              written, inPipe, got, produced, guest, atExpiry, aliveSeen, limitRaised,
              forged>>
serVars  == <<graph, frames, step, mapping, scope, tcall>>
vars     == <<procVars, serVars>>

NoValue == [none |-> TRUE]

-----------------------------------------------------------------------------
(* Constants of src/app.py *)

MAX_STEPS == 2000
MAX_PREVIEW_ITEMS == 6
MAX_REFERENCE_DEPTH == 3
USER_FILENAME == "<user_code>"

(* Bounds of the model *)

\* most units of text the guest writes to stdout
MaxStdout == 1
\* most units the snapshots held by the recorded Steps take once pickled
MaxContent == 1
\* recordable events of the guest that left no Step in the list (tracing
\* stopped, an unhooked thread, the limit raised, a Step the guest removed)
MaxUntraced == 1
\* guest threads that are in tracer at once
MaxThreads == 1
\* entries of the list steps that the guest put there itself
MaxForeign == 1
\* units of a message the pipe holds before a write blocks (socket buffer)
PipeCapacity == 1
\* recordable events of the guest before it writes to conn itself (the
\* "call" and the "line" of the module come before its first statement)
MaxBeforeSend == 2
\* what the guest does (events, prints, edits of the list) after it wrote to
\* conn itself and before its run ends
MaxAfterSend == 0

Min(a, b) == IF a < b THEN a ELSE b

\* The element of a one-element set.  { e(x) : x \in {v} } computes v once
\* and then e with x standing for that value.
The(S) == CHOOSE x \in S : TRUE

-----------------------------------------------------------------------------
(* TraceResult (dataclass, lines 24-30).  A list of Steps is              *)
(* [len |-> how many Steps, units |-> units of the pipe that the locals,   *)
(* globals, stack and heap held by those Steps take once pickled]: the     *)
(* list only ever grows by steps.append (line 288); a Step of a program    *)
(* with no bindings takes next to nothing, a Step of one with bound        *)
(* collections may take a unit or more.                                    *)

NoSteps == [len |-> 0, units |-> 0]

\* What the pipe holds of a message whose writer ended before the last unit:
\* no TraceResult can be read from it.
Fragment == [fragment |-> TRUE]

ErrNone     == "null"
ErrLimit    == "Visualization limited to MAX_STEPS steps"
ErrTrace    == "traceback.format_exc()"
ErrTimeout  == "Execution timed out"
ErrNoResult == "No result produced"

TraceResult(so, tr, err, trunc, tout) ==
    [stdout |-> so, trace |-> tr, error |-> err, truncated |-> trunc, timed_out |-> tout]

-----------------------------------------------------------------------------
(* api_run (lines 352-367): the request body and its validation.           *)
(* A body is what request.get_json parses: json is the kind of JSON value  *)
(* ("invalid" when the bytes are no JSON at all), falsy is Python's truth  *)
(* test of the parsed value, code is the "code" member of an object.       *)

JsonBody(j, f, c) == [json |-> j, falsy |-> f, code |-> c]

Bodies ==
    { JsonBody("object", FALSE, "str"),      \* {"code": "x = 1"}
      JsonBody("object", FALSE, "nonstr"),   \* {"code": 5}, {"code": null}
      JsonBody("object", FALSE, "missing"),  \* {"x": 1}
      JsonBody("object", TRUE,  "missing"),  \* {}
      JsonBody("array",  FALSE, "missing"),  \* [1]
      JsonBody("array",  TRUE,  "missing"),  \* []
      JsonBody("string", FALSE, "missing"),  \* "abc"
      JsonBody("string", TRUE,  "missing"),  \* ""
      JsonBody("number", FALSE, "missing"),  \* 5
      JsonBody("number", TRUE,  "missing"),  \* 0
      JsonBody("bool",   FALSE, "missing"),  \* true
      JsonBody("bool",   TRUE,  "missing"),  \* false
      JsonBody("null",   TRUE,  "missing"),  \* null
      JsonBody("invalid", FALSE, "missing") }\* not JSON

\* request.get_json(force=True, silent=True): None when parsing fails.
GetJson(b) == IF b.json = "invalid" THEN JsonBody("null", TRUE, "missing") ELSE b

\* `... or {}` (line 354): a falsy value is replaced by the empty dict.
OrEmptyDict(p) == IF p.falsy THEN JsonBody("object", TRUE, "missing") ELSE p

\* payload.get("code", "") (line 355): only a dict has .get; the default is "".
\* "attribute_error" stands for the AttributeError the call raises otherwise.
PayloadGet(p) ==
    IF p.json # "object" THEN "attribute_error"
    ELSE IF p.code = "missing" THEN "empty_str"
    ELSE p.code

\* isinstance(code, str) (line 356)
IsStr(code) == code \in {"str", "empty_str"}

\* What api_run does with the body before any execution starts.
ApiDecision(b) ==
    LET code == PayloadGet(OrEmptyDict(GetJson(b))) IN
    IF code = "attribute_error" THEN "raise"
    ELSE IF ~IsStr(code) THEN "reject"
    ELSE "execute"

NoResponse == [status |-> 0]
InvalidPayload ==
    [status |-> 400, error |-> "Invalid code payload", trace |-> NoSteps, stdout |-> 0,
     timedOut |-> FALSE, truncated |-> FALSE]
\* Flask answers an exception that escapes a view with 500 Internal Server Error.
ServerError == [status |-> 500, error |-> "Internal Server Error"]
Response(r) ==
    [status |-> 200, error |-> r.error, trace |-> r.trace, stdout |-> r.stdout,
     timedOut |-> r.timed_out, truncated |-> r.truncated]

-----------------------------------------------------------------------------
(* The pipe (mp.Pipe, line 328) and the message on it.                     *)

\* Units the pickled TraceResult takes on the pipe: it grows with the
\* captured output and with what the Steps hold.
Size(m) == 1 + m.stdout + m.trace.units

\* The process is alive while run_user_code runs and, after it, while the
\* interpreter shuts down ("exiting": it joins the guest's non-daemon threads).
ChildAlive == child_pc \in {"exec", "send", "exiting"}

\* What the child is doing: running the guest ("exec"), able to write its
\* message ("sending"), waiting in a write for room in the pipe ("blocked"),
\* past run_user_code and shutting down ("exiting"), or gone ("exited").
ChildActivity ==
    CASE child_pc = "exec" -> "exec"
      [] child_pc = "send" /\ inPipe < PipeCapacity -> "sending"
      [] child_pc = "send" /\ inPipe >= PipeCapacity -> "blocked"
      [] child_pc = "exiting" -> "exiting"
      [] OTHER -> "exited"

\* execute_code keeps child_conn open in the parent for its whole run
\* (lines 328-344 never close it), so a reader of parent_conn never sees
\* end-of-file: a recv of an incomplete message waits for the rest.
ParentHoldsChildConn == TRUE

-----------------------------------------------------------------------------
(* run_user_code.tracer (lines 262-289)                                    *)

RecordableEvents == {"call", "line", "return", "exception"}

Recordable(file, event) == file = USER_FILENAME /\ event \in RecordableEvents

\* What one call of tracer does when it finds n Steps recorded (lines
\* 264-269): "append" is the decision to go on to lines 271-288.
TracerOutcome(n, file, event) ==
    IF file # USER_FILENAME THEN "ignore"
    ELSE IF event \notin RecordableEvents THEN "ignore"
    ELSE IF n >= MAX_STEPS THEN "raise"
    ELSE "append"

\* The events of the program "" (what a missing code defaults to):
\* call, line, return of the empty module.
EmptyProgramEvents == 3

\* The program execute_code receives is the guest's string, or the default
\* "", which does nothing.
GuestIsFree == PayloadGet(OrEmptyDict(GetJson(body))) = "str"

-----------------------------------------------------------------------------
(* run_user_code (lines 258-324): the except clauses and the result.       *)

\* No call of tracer is between its test and its append.
NoCalls == [main |-> FALSE, threads |-> 0]

\* Which clause of lines 307-311 takes an exception leaving exec():
\* "BaseException" is one that is no Exception (SystemExit, KeyboardInterrupt).
Handler(exc) ==
    IF exc = "TraceLimitExceeded" THEN "limit"
    ELSE IF exc = "Exception" THEN "traceback"
    ELSE "propagate"

\* The TraceResult of lines 316-322.
ChildResult(so, n, how) ==
    CASE how = "normal"    -> TraceResult(so, n, ErrNone, FALSE, FALSE)
      [] how = "limit"     -> TraceResult(so, n, ErrLimit, TRUE, FALSE)
      [] how = "traceback" -> TraceResult(so, n, ErrTrace, FALSE, FALSE)

\* exec() is over in the main thread (normally or by an exception `how`
\* handles): lines 305-322; no call of tracer is left in that thread.  The
\* TraceResult holds the list steps itself, not a copy.  An exception no
\* clause handles leaves run_user_code: nothing is sent and the interpreter
\* shuts down.
EndOfExec(how, outcome) ==
    /\ tracing' = FALSE
    /\ guest' = outcome
    /\ IF how = "propagate"
       THEN /\ child_pc' = "exiting"
            /\ msg' = msg
            /\ calls' = NoCalls
       ELSE /\ child_pc' = "send"
            /\ msg' = ChildResult(stdout, steps, how)
            /\ calls' = [calls EXCEPT !.main = FALSE]

-----------------------------------------------------------------------------
(* Values of the guest program.                                            *)
(* Text (a name, a rendering) is a sequence of code points, so that        *)
(* Python's string order, startswith and endswith are computed on it.      *)
(* A value is a scalar, or a reference to an object of the graph:          *)
(*   [k |-> "NoneType"], [k |-> "bool", b |-> TRUE], [k |-> "int", n |-> 1],*)
(*   [k |-> "int", pow |-> 309] (the int 10**309, beyond the range of      *)
(*   float), [k |-> "float", h |-> 3] (the float 1.5: h halves),           *)
(*   [k |-> "str", s |-> text], [k |-> "ref", id |-> i]                    *)
(* graph[i] = [type |-> type name, items |-> sequence]: the items of a     *)
(* list/tuple/set/frozenset are values, those of a dict are <<key, value>> *)
(* pairs, those of an instance (it has a __dict__) are <<attribute name,   *)
(* value>> pairs.  The instances are of the guest's classes "C" (keeps     *)
(* object.__repr__), "R" (its __repr__ raises an Exception), "B" (its      *)
(* __repr__ raises a BaseException, as sys.exit() does) and of ValueError; *)
(* type "object" has no __dict__.                                          *)

NoneV     == [k |-> "NoneType"]
BoolV(b)  == [k |-> "bool", b |-> b]
IntV(n)   == [k |-> "int", n |-> n]
BigInt(e) == [k |-> "int", pow |-> e]
FloatV(h) == [k |-> "float", h |-> h]
StrV(s)   == [k |-> "str", s |-> s]
RefV(i)   == [k |-> "ref", id |-> i]

SequenceTypes  == {"list", "tuple"}
SetTypes       == {"set", "frozenset"}
ExceptionTypes == {"ValueError"}
\* hasattr(value, "__dict__") (line 196)
InstanceTypes  == {"C", "R", "B"} \cup ExceptionTypes

\* isinstance(value, (int, float, bool, type(None), str)) (line 138)
IsScalar(v) == v.k # "ref"

\* type(value).__name__
TypeName(g, v) == IF v.k = "ref" THEN g[v.id].type ELSE v.k

Ellipsis  == <<46, 46, 46>>            \* "..."
CommaSp   == <<44, 32>>                \* ", "
ColonSp   == <<58, 32>>                \* ": "
NoneText  == <<78, 111, 110, 101>>     \* "None"
TrueText  == <<84, 114, 117, 101>>     \* "True"
FalseText == <<70, 97, 108, 115, 101>> \* "False"
Dunder    == <<95, 95>>                \* "__"
BuiltinsName == <<95, 95, 98, 117, 105, 108, 116, 105, 110, 115, 95, 95>> \* "__builtins__"
MainName  == <<95, 95, 110, 97, 109, 101, 95, 95>>                        \* "__name__"
MainText  == <<95, 95, 109, 97, 105, 110, 95, 95>>                        \* "__main__"

\* What format_value gives when repr(value) raises an exception that is no
\* Exception: no text at all, the exception leaves format_value.
RaisedBase == <<0 - 1>>

\* type(value).__name__ as text, for the types whose name is shown in a
\* rendering: "<unrepr R>", "<unrepr int>", "<__main__.C object at ...>",
\* "<object object at ...>"
TypeText(type) ==
    CASE type = "R" -> <<82>>
      [] type = "int" -> <<105, 110, 116>>
      [] type = "C" -> <<95, 95, 109, 97, 105, 110, 95, 95, 46, 67>>   \* "__main__.C"
      [] type = "object" -> <<111, 98, 106, 101, 99, 116>>

\* f"<unrepr {type(value).__name__}>" (line 69)
Unrepr(type) == <<60, 117, 110, 114, 101, 112, 114, 32>> \o TypeText(type) \o <<62>>

RECURSIVE Digits(_)
\* the decimal digits of a non-negative int
Digits(n) == IF n < 10 THEN <<48 + n>> ELSE Digits(n \div 10) \o <<48 + (n % 10)>>

RECURSIVE Hex(_)
\* the lower-case hexadecimal digits of a non-negative int
Hex(n) ==
    LET HexDigit(d) == IF d < 10 THEN 48 + d ELSE 87 + d IN
    IF n < 16 THEN <<HexDigit(n)>> ELSE Hex(n \div 16) \o <<HexDigit(n % 16)>>

\* repr of an int
IntRepr(n) == IF n < 0 THEN <<45>> \o Digits(0 - n) ELSE Digits(n)

\* sys.get_int_max_str_digits(): repr of an int of more digits raises ValueError
MaxStrDigits == 4300

\* repr of the int 10**e
PowRepr(e) == <<49>> \o [j \in 1..e |-> 48]

\* the greatest e for which float(10**e) does not raise OverflowError
FloatMaxPow == 308

\* repr of a float of h halves, below 1e16 in size: "1.0", "1.5", "-2.5"
FloatRepr(h) ==
    LET a == IF h < 0 THEN 0 - h ELSE h IN
    (IF h < 0 THEN <<45>> ELSE <<>>)
    \o Digits(a \div 2) \o <<46>> \o (IF a % 2 = 0 THEN <<48>> ELSE <<53>>)

\* repr(value) of an instance that has no repr of its own: the class and
\* the address (the model's number of the object),
\* "<__main__.C object at 0x7f...>"; of a ValueError raised without
\* arguments, "ValueError()".
DefaultRepr(type, i) ==
    IF type \in ExceptionTypes
    THEN <<86, 97, 108, 117, 101, 69, 114, 114, 111, 114, 40, 41>>
    ELSE <<60>> \o TypeText(type)
         \o <<32, 111, 98, 106, 101, 99, 116, 32, 97, 116, 32, 48, 120>>
         \o Hex(i) \o <<62>>

\* The code points for which str.isprintable() is false, as ranges
\* <<first, last>> (Unicode 14.0.0, the database of CPython 3.11: the
\* categories Cc, Cf, Cs, Co, Cn, Zl, Zp and Zs but for the space).
NotPrintable ==
    << <<0, 31>>, <<127, 160>>, <<173, 173>>, <<888, 889>>, <<896, 899>>, <<907, 907>>,
       <<909, 909>>, <<930, 930>>, <<1328, 1328>>, <<1367, 1368>>, <<1419, 1420>>,
       <<1424, 1424>>, <<1480, 1487>>, <<1515, 1518>>, <<1525, 1541>>, <<1564, 1564>>,
       <<1757, 1757>>, <<1806, 1807>>, <<1867, 1868>>, <<1970, 1983>>, <<2043, 2044>>,
       <<2094, 2095>>, <<2111, 2111>>, <<2140, 2141>>, <<2143, 2143>>, <<2155, 2159>>,
       <<2191, 2199>>, <<2274, 2274>>, <<2436, 2436>>, <<2445, 2446>>, <<2449, 2450>>,
       <<2473, 2473>>, <<2481, 2481>>, <<2483, 2485>>, <<2490, 2491>>, <<2501, 2502>>,
       <<2505, 2506>>, <<2511, 2518>>, <<2520, 2523>>, <<2526, 2526>>, <<2532, 2533>>,
       <<2559, 2560>>, <<2564, 2564>>, <<2571, 2574>>, <<2577, 2578>>, <<2601, 2601>>,
       <<2609, 2609>>, <<2612, 2612>>, <<2615, 2615>>, <<2618, 2619>>, <<2621, 2621>>,
       <<2627, 2630>>, <<2633, 2634>>, <<2638, 2640>>, <<2642, 2648>>, <<2653, 2653>>,
       <<2655, 2661>>, <<2679, 2688>>, <<2692, 2692>>, <<2702, 2702>>, <<2706, 2706>>,
       <<2729, 2729>>, <<2737, 2737>>, <<2740, 2740>>, <<2746, 2747>>, <<2758, 2758>>,
       <<2762, 2762>>, <<2766, 2767>>, <<2769, 2783>>, <<2788, 2789>>, <<2802, 2808>>,
       <<2816, 2816>>, <<2820, 2820>>, <<2829, 2830>>, <<2833, 2834>>, <<2857, 2857>>,
       <<2865, 2865>>, <<2868, 2868>>, <<2874, 2875>>, <<2885, 2886>>, <<2889, 2890>>,
       <<2894, 2900>>, <<2904, 2907>>, <<2910, 2910>>, <<2916, 2917>>, <<2936, 2945>>,
       <<2948, 2948>>, <<2955, 2957>>, <<2961, 2961>>, <<2966, 2968>>, <<2971, 2971>>,
       <<2973, 2973>>, <<2976, 2978>>, <<2981, 2983>>, <<2987, 2989>>, <<3002, 3005>>,
       <<3011, 3013>>, <<3017, 3017>>, <<3022, 3023>>, <<3025, 3030>>, <<3032, 3045>>,
       <<3067, 3071>>, <<3085, 3085>>, <<3089, 3089>>, <<3113, 3113>>, <<3130, 3131>>,
       <<3141, 3141>>, <<3145, 3145>>, <<3150, 3156>>, <<3159, 3159>>, <<3163, 3164>>,
       <<3166, 3167>>, <<3172, 3173>>, <<3184, 3190>>, <<3213, 3213>>, <<3217, 3217>>,
       <<3241, 3241>>, <<3252, 3252>>, <<3258, 3259>>, <<3269, 3269>>, <<3273, 3273>>,
       <<3278, 3284>>, <<3287, 3292>>, <<3295, 3295>>, <<3300, 3301>>, <<3312, 3312>>,
       <<3315, 3327>>, <<3341, 3341>>, <<3345, 3345>>, <<3397, 3397>>, <<3401, 3401>>,
       <<3408, 3411>>, <<3428, 3429>>, <<3456, 3456>>, <<3460, 3460>>, <<3479, 3481>>,
       <<3506, 3506>>, <<3516, 3516>>, <<3518, 3519>>, <<3527, 3529>>, <<3531, 3534>>,
       <<3541, 3541>>, <<3543, 3543>>, <<3552, 3557>>, <<3568, 3569>>, <<3573, 3584>>,
       <<3643, 3646>>, <<3676, 3712>>, <<3715, 3715>>, <<3717, 3717>>, <<3723, 3723>>,
       <<3748, 3748>>, <<3750, 3750>>, <<3774, 3775>>, <<3781, 3781>>, <<3783, 3783>>,
       <<3790, 3791>>, <<3802, 3803>>, <<3808, 3839>>, <<3912, 3912>>, <<3949, 3952>>,
       <<3992, 3992>>, <<4029, 4029>>, <<4045, 4045>>, <<4059, 4095>>, <<4294, 4294>>,
       <<4296, 4300>>, <<4302, 4303>>, <<4681, 4681>>, <<4686, 4687>>, <<4695, 4695>>,
       <<4697, 4697>>, <<4702, 4703>>, <<4745, 4745>>, <<4750, 4751>>, <<4785, 4785>>,
       <<4790, 4791>>, <<4799, 4799>>, <<4801, 4801>>, <<4806, 4807>>, <<4823, 4823>>,
       <<4881, 4881>>, <<4886, 4887>>, <<4955, 4956>>, <<4989, 4991>>, <<5018, 5023>>,
       <<5110, 5111>>, <<5118, 5119>>, <<5760, 5760>>, <<5789, 5791>>, <<5881, 5887>>,
       <<5910, 5918>>, <<5943, 5951>>, <<5972, 5983>>, <<5997, 5997>>, <<6001, 6001>>,
       <<6004, 6015>>, <<6110, 6111>>, <<6122, 6127>>, <<6138, 6143>>, <<6158, 6158>>,
       <<6170, 6175>>, <<6265, 6271>>, <<6315, 6319>>, <<6390, 6399>>, <<6431, 6431>>,
       <<6444, 6447>>, <<6460, 6463>>, <<6465, 6467>>, <<6510, 6511>>, <<6517, 6527>>,
       <<6572, 6575>>, <<6602, 6607>>, <<6619, 6621>>, <<6684, 6685>>, <<6751, 6751>>,
       <<6781, 6782>>, <<6794, 6799>>, <<6810, 6815>>, <<6830, 6831>>, <<6863, 6911>>,
       <<6989, 6991>>, <<7039, 7039>>, <<7156, 7163>>, <<7224, 7226>>, <<7242, 7244>>,
       <<7305, 7311>>, <<7355, 7356>>, <<7368, 7375>>, <<7419, 7423>>, <<7958, 7959>>,
       <<7966, 7967>>, <<8006, 8007>>, <<8014, 8015>>, <<8024, 8024>>, <<8026, 8026>>,
       <<8028, 8028>>, <<8030, 8030>>, <<8062, 8063>>, <<8117, 8117>>, <<8133, 8133>>,
       <<8148, 8149>>, <<8156, 8156>>, <<8176, 8177>>, <<8181, 8181>>, <<8191, 8207>>,
       <<8232, 8239>>, <<8287, 8303>>, <<8306, 8307>>, <<8335, 8335>>, <<8349, 8351>>,
       <<8385, 8399>>, <<8433, 8447>>, <<8588, 8591>>, <<9255, 9279>>, <<9291, 9311>>,
       <<11124, 11125>>, <<11158, 11158>>, <<11508, 11512>>, <<11558, 11558>>,
       <<11560, 11564>>, <<11566, 11567>>, <<11624, 11630>>, <<11633, 11646>>,
       <<11671, 11679>>, <<11687, 11687>>, <<11695, 11695>>, <<11703, 11703>>,
       <<11711, 11711>>, <<11719, 11719>>, <<11727, 11727>>, <<11735, 11735>>,
       <<11743, 11743>>, <<11870, 11903>>, <<11930, 11930>>, <<12020, 12031>>,
       <<12246, 12271>>, <<12284, 12288>>, <<12352, 12352>>, <<12439, 12440>>,
       <<12544, 12548>>, <<12592, 12592>>, <<12687, 12687>>, <<12772, 12783>>,
       <<12831, 12831>>, <<42125, 42127>>, <<42183, 42191>>, <<42540, 42559>>,
       <<42744, 42751>>, <<42955, 42959>>, <<42962, 42962>>, <<42964, 42964>>,
       <<42970, 42993>>, <<43053, 43055>>, <<43066, 43071>>, <<43128, 43135>>,
       <<43206, 43213>>, <<43226, 43231>>, <<43348, 43358>>, <<43389, 43391>>,
       <<43470, 43470>>, <<43482, 43485>>, <<43519, 43519>>, <<43575, 43583>>,
       <<43598, 43599>>, <<43610, 43611>>, <<43715, 43738>>, <<43767, 43776>>,
       <<43783, 43784>>, <<43791, 43792>>, <<43799, 43807>>, <<43815, 43815>>,
       <<43823, 43823>>, <<43884, 43887>>, <<44014, 44015>>, <<44026, 44031>>,
       <<55204, 55215>>, <<55239, 55242>>, <<55292, 63743>>, <<64110, 64111>>,
       <<64218, 64255>>, <<64263, 64274>>, <<64280, 64284>>, <<64311, 64311>>,
       <<64317, 64317>>, <<64319, 64319>>, <<64322, 64322>>, <<64325, 64325>>,
       <<64451, 64466>>, <<64912, 64913>>, <<64968, 64974>>, <<64976, 65007>>,
       <<65050, 65055>>, <<65107, 65107>>, <<65127, 65127>>, <<65132, 65135>>,
       <<65141, 65141>>, <<65277, 65280>>, <<65471, 65473>>, <<65480, 65481>>,
       <<65488, 65489>>, <<65496, 65497>>, <<65501, 65503>>, <<65511, 65511>>,
       <<65519, 65531>>, <<65534, 65535>>, <<65548, 65548>>, <<65575, 65575>>,
       <<65595, 65595>>, <<65598, 65598>>, <<65614, 65615>>, <<65630, 65663>>,
       <<65787, 65791>>, <<65795, 65798>>, <<65844, 65846>>, <<65935, 65935>>,
       <<65949, 65951>>, <<65953, 65999>>, <<66046, 66175>>, <<66205, 66207>>,
       <<66257, 66271>>, <<66300, 66303>>, <<66340, 66348>>, <<66379, 66383>>,
       <<66427, 66431>>, <<66462, 66462>>, <<66500, 66503>>, <<66518, 66559>>,
       <<66718, 66719>>, <<66730, 66735>>, <<66772, 66775>>, <<66812, 66815>>,
       <<66856, 66863>>, <<66916, 66926>>, <<66939, 66939>>, <<66955, 66955>>,
       <<66963, 66963>>, <<66966, 66966>>, <<66978, 66978>>, <<66994, 66994>>,
       <<67002, 67002>>, <<67005, 67071>>, <<67383, 67391>>, <<67414, 67423>>,
       <<67432, 67455>>, <<67462, 67462>>, <<67505, 67505>>, <<67515, 67583>>,
       <<67590, 67591>>, <<67593, 67593>>, <<67638, 67638>>, <<67641, 67643>>,
       <<67645, 67646>>, <<67670, 67670>>, <<67743, 67750>>, <<67760, 67807>>,
       <<67827, 67827>>, <<67830, 67834>>, <<67868, 67870>>, <<67898, 67902>>,
       <<67904, 67967>>, <<68024, 68027>>, <<68048, 68049>>, <<68100, 68100>>,
       <<68103, 68107>>, <<68116, 68116>>, <<68120, 68120>>, <<68150, 68151>>,
       <<68155, 68158>>, <<68169, 68175>>, <<68185, 68191>>, <<68256, 68287>>,
       <<68327, 68330>>, <<68343, 68351>>, <<68406, 68408>>, <<68438, 68439>>,
       <<68467, 68471>>, <<68498, 68504>>, <<68509, 68520>>, <<68528, 68607>>,
       <<68681, 68735>>, <<68787, 68799>>, <<68851, 68857>>, <<68904, 68911>>,
       <<68922, 69215>>, <<69247, 69247>>, <<69290, 69290>>, <<69294, 69295>>,
       <<69298, 69375>>, <<69416, 69423>>, <<69466, 69487>>, <<69514, 69551>>,
       <<69580, 69599>>, <<69623, 69631>>, <<69710, 69713>>, <<69750, 69758>>,
       <<69821, 69821>>, <<69827, 69839>>, <<69865, 69871>>, <<69882, 69887>>,
       <<69941, 69941>>, <<69960, 69967>>, <<70007, 70015>>, <<70112, 70112>>,
       <<70133, 70143>>, <<70162, 70162>>, <<70207, 70271>>, <<70279, 70279>>,
       <<70281, 70281>>, <<70286, 70286>>, <<70302, 70302>>, <<70314, 70319>>,
       <<70379, 70383>>, <<70394, 70399>>, <<70404, 70404>>, <<70413, 70414>>,
       <<70417, 70418>>, <<70441, 70441>>, <<70449, 70449>>, <<70452, 70452>>,
       <<70458, 70458>>, <<70469, 70470>>, <<70473, 70474>>, <<70478, 70479>>,
       <<70481, 70486>>, <<70488, 70492>>, <<70500, 70501>>, <<70509, 70511>>,
       <<70517, 70655>>, <<70748, 70748>>, <<70754, 70783>>, <<70856, 70863>>,
       <<70874, 71039>>, <<71094, 71095>>, <<71134, 71167>>, <<71237, 71247>>,
       <<71258, 71263>>, <<71277, 71295>>, <<71354, 71359>>, <<71370, 71423>>,
       <<71451, 71452>>, <<71468, 71471>>, <<71495, 71679>>, <<71740, 71839>>,
       <<71923, 71934>>, <<71943, 71944>>, <<71946, 71947>>, <<71956, 71956>>,
       <<71959, 71959>>, <<71990, 71990>>, <<71993, 71994>>, <<72007, 72015>>,
       <<72026, 72095>>, <<72104, 72105>>, <<72152, 72153>>, <<72165, 72191>>,
       <<72264, 72271>>, <<72355, 72367>>, <<72441, 72703>>, <<72713, 72713>>,
       <<72759, 72759>>, <<72774, 72783>>, <<72813, 72815>>, <<72848, 72849>>,
       <<72872, 72872>>, <<72887, 72959>>, <<72967, 72967>>, <<72970, 72970>>,
       <<73015, 73017>>, <<73019, 73019>>, <<73022, 73022>>, <<73032, 73039>>,
       <<73050, 73055>>, <<73062, 73062>>, <<73065, 73065>>, <<73103, 73103>>,
       <<73106, 73106>>, <<73113, 73119>>, <<73130, 73439>>, <<73465, 73647>>,
       <<73649, 73663>>, <<73714, 73726>>, <<74650, 74751>>, <<74863, 74863>>,
       <<74869, 74879>>, <<75076, 77711>>, <<77811, 77823>>, <<78895, 82943>>,
       <<83527, 92159>>, <<92729, 92735>>, <<92767, 92767>>, <<92778, 92781>>,
       <<92863, 92863>>, <<92874, 92879>>, <<92910, 92911>>, <<92918, 92927>>,
       <<92998, 93007>>, <<93018, 93018>>, <<93026, 93026>>, <<93048, 93052>>,
       <<93072, 93759>>, <<93851, 93951>>, <<94027, 94030>>, <<94088, 94094>>,
       <<94112, 94175>>, <<94181, 94191>>, <<94194, 94207>>, <<100344, 100351>>,
       <<101590, 101631>>, <<101641, 110575>>, <<110580, 110580>>, <<110588, 110588>>,
       <<110591, 110591>>, <<110883, 110927>>, <<110931, 110947>>, <<110952, 110959>>,
       <<111356, 113663>>, <<113771, 113775>>, <<113789, 113791>>, <<113801, 113807>>,
       <<113818, 113819>>, <<113824, 118527>>, <<118574, 118575>>, <<118599, 118607>>,
       <<118724, 118783>>, <<119030, 119039>>, <<119079, 119080>>, <<119155, 119162>>,
       <<119275, 119295>>, <<119366, 119519>>, <<119540, 119551>>, <<119639, 119647>>,
       <<119673, 119807>>, <<119893, 119893>>, <<119965, 119965>>, <<119968, 119969>>,
       <<119971, 119972>>, <<119975, 119976>>, <<119981, 119981>>, <<119994, 119994>>,
       <<119996, 119996>>, <<120004, 120004>>, <<120070, 120070>>, <<120075, 120076>>,
       <<120085, 120085>>, <<120093, 120093>>, <<120122, 120122>>, <<120127, 120127>>,
       <<120133, 120133>>, <<120135, 120137>>, <<120145, 120145>>, <<120486, 120487>>,
       <<120780, 120781>>, <<121484, 121498>>, <<121504, 121504>>, <<121520, 122623>>,
       <<122655, 122879>>, <<122887, 122887>>, <<122905, 122906>>, <<122914, 122914>>,
       <<122917, 122917>>, <<122923, 123135>>, <<123181, 123183>>, <<123198, 123199>>,
       <<123210, 123213>>, <<123216, 123535>>, <<123567, 123583>>, <<123642, 123646>>,
       <<123648, 124895>>, <<124903, 124903>>, <<124908, 124908>>, <<124911, 124911>>,
       <<124927, 124927>>, <<125125, 125126>>, <<125143, 125183>>, <<125260, 125263>>,
       <<125274, 125277>>, <<125280, 126064>>, <<126133, 126208>>, <<126270, 126463>>,
       <<126468, 126468>>, <<126496, 126496>>, <<126499, 126499>>, <<126501, 126502>>,
       <<126504, 126504>>, <<126515, 126515>>, <<126520, 126520>>, <<126522, 126522>>,
       <<126524, 126529>>, <<126531, 126534>>, <<126536, 126536>>, <<126538, 126538>>,
       <<126540, 126540>>, <<126544, 126544>>, <<126547, 126547>>, <<126549, 126550>>,
       <<126552, 126552>>, <<126554, 126554>>, <<126556, 126556>>, <<126558, 126558>>,
       <<126560, 126560>>, <<126563, 126563>>, <<126565, 126566>>, <<126571, 126571>>,
       <<126579, 126579>>, <<126584, 126584>>, <<126589, 126589>>, <<126591, 126591>>,
       <<126602, 126602>>, <<126620, 126624>>, <<126628, 126628>>, <<126634, 126634>>,
       <<126652, 126703>>, <<126706, 126975>>, <<127020, 127023>>, <<127124, 127135>>,
       <<127151, 127152>>, <<127168, 127168>>, <<127184, 127184>>, <<127222, 127231>>,
       <<127406, 127461>>, <<127491, 127503>>, <<127548, 127551>>, <<127561, 127567>>,
       <<127570, 127583>>, <<127590, 127743>>, <<128728, 128732>>, <<128749, 128751>>,
       <<128765, 128767>>, <<128884, 128895>>, <<128985, 128991>>, <<129004, 129007>>,
       <<129009, 129023>>, <<129036, 129039>>, <<129096, 129103>>, <<129114, 129119>>,
       <<129160, 129167>>, <<129198, 129199>>, <<129202, 129279>>, <<129620, 129631>>,
       <<129646, 129647>>, <<129653, 129655>>, <<129661, 129663>>, <<129671, 129679>>,
       <<129709, 129711>>, <<129723, 129727>>, <<129734, 129743>>, <<129754, 129759>>,
       <<129768, 129775>>, <<129783, 129791>>, <<129939, 129939>>, <<129995, 130031>>,
       <<130042, 131071>>, <<173792, 173823>>, <<177977, 177983>>, <<178206, 178207>>,
       <<183970, 183983>>, <<191457, 194559>>, <<195102, 196607>>, <<201547, 917759>>,
       <<918000, 1114111>> >>

\* str.isprintable() of one character: repr leaves it as it is
Printable(c) ==
    IF c < 127 THEN c > 31
    ELSE ~\E j \in 1..Len(NotPrintable) : NotPrintable[j][1] <= c /\ c <= NotPrintable[j][2]

\* repr's rendering of character c between quotes q: a character that is
\* not printable is written \xhh, \uhhhh or \Uhhhhhhhh
Escaped(c, q) ==
    LET Padded(digits, w) == [j \in 1..(w - Len(digits)) |-> 48] \o digits IN
    IF c = q \/ c = 92 THEN <<92, c>>
    ELSE IF c = 9 THEN <<92, 116>>
    ELSE IF c = 10 THEN <<92, 110>>
    ELSE IF c = 13 THEN <<92, 114>>
    ELSE IF Printable(c) THEN <<c>>
    ELSE IF c < 256 THEN <<92, 120>> \o Padded(Hex(c), 2)
    ELSE IF c < 65536 THEN <<92, 117>> \o Padded(Hex(c), 4)
    ELSE <<92, 85>> \o Padded(Hex(c), 8)

RECURSIVE EscapedFrom(_, _, _)
EscapedFrom(s, q, i) ==
    IF i > Len(s) THEN <<>> ELSE Escaped(s[i], q) \o EscapedFrom(s, q, i + 1)

\* repr(s) of a str: double quotes when s holds a single quote and no
\* double quote, single quotes otherwise
StrRepr(s) ==
    LET single == \E i \in 1..Len(s) : s[i] = 39
        double == \E i \in 1..Len(s) : s[i] = 34
    IN  The({ <<q>> \o EscapedFrom(s, q, 1) \o <<q>> :
              q \in {IF single /\ ~double THEN 34 ELSE 39} })

RECURSIVE LexLess(_, _)
\* s < t for Python strings: code-point lexicographic order
LexLess(s, t) ==
    IF t = <<>> THEN FALSE
    ELSE IF s = <<>> THEN TRUE
    ELSE IF Head(s) # Head(t) THEN Head(s) < Head(t)
    ELSE LexLess(Tail(s), Tail(t))

StartsWith(s, p) == Len(s) >= Len(p) /\ SubSeq(s, 1, Len(p)) = p
EndsWith(s, p)   == Len(s) >= Len(p) /\ SubSeq(s, Len(s) - Len(p) + 1, Len(s)) = p

RECURSIVE JoinFrom(_, _, _)
\* sep.join(texts[i:]) for 0-based i
JoinFrom(texts, sep, i) ==
    IF i >= Len(texts) THEN <<>>
    ELSE IF i + 1 = Len(texts) THEN texts[i + 1]
    ELSE texts[i + 1] \o sep \o JoinFrom(texts, sep, i + 1)

\* sep.join(texts)
Join(texts, sep) == The({ JoinFrom(t, sep, 0) : t \in {texts} })

\* seq[:n]
Prefix(seq, n) == SubSeq(seq, 1, Min(Len(seq), n))

\* list.sort(key=...) / sorted(..., key=...) over a sequence of
\* [key |-> text, item |-> x]: a stable sort by the key; x goes after every
\* element whose key is not greater.
InsertByKey(x, sorted) ==
    LET p == Cardinality({ j \in 1..Len(sorted) : ~LexLess(x.key, sorted[j].key) })
    IN  SubSeq(sorted, 1, p) \o <<x>> \o SubSeq(sorted, p + 1, Len(sorted))

RECURSIVE SortFirst(_, _)
\* the first n elements of seq, sorted
SortFirst(seq, n) ==
    IF n = 0 THEN <<>>
    ELSE The({ The({ InsertByKey(x, sorted) : x \in {seq[n]} }) :
               sorted \in {SortFirst(seq, n - 1)} })

StableSortByKey(seq) == The({ SortFirst(s, Len(s)) : s \in {seq} })

\* the items of a sorted sequence of [key, item]
Items(keyed) == [j \in 1..Len(keyed) |-> keyed[j].item]

\* a mapping's items sorted by name: key=lambda pair: str(pair[0]) (line 221)
SortedByName(m) ==
    Items(StableSortByKey([j \in 1..Len(m) |-> [key |-> m[j][1], item |-> m[j]]]))

-----------------------------------------------------------------------------
(* The interpreter switches threads between the bytecodes of format_value  *)
(* and serialize_reference: a call may read an object before a store of    *)
(* another thread of the guest and read it again after.  A call threads a  *)
(* record w = [heap, registered, met, g, next, at, reads]: heap,           *)
(* registered and met are the heap table and its history (below), g is the *)
(* object graph as it is now, next the graph after the store that lands    *)
(* inside the call, at the number of reads still to be made before that    *)
(* store lands (-1 when none is to land), reads the number of reads made.  *)

\* the state a call begins with
Begin(st, g, next, at) ==
    [heap |-> st.heap, registered |-> st.registered, met |-> st.met,
     g |-> g, next |-> next, at |-> at, reads |-> 0]

\* One read of an object's items: list(value), value.items(), len(value),
\* vars(value).  Each is one call into the interpreter, whole before or
\* whole after the other thread's store.
Read(w) ==
    IF w.at = 0 THEN [w EXCEPT !.g = w.next, !.at = 0 - 1, !.reads = @ + 1]
    ELSE IF w.at > 0 THEN [w EXCEPT !.at = @ - 1, !.reads = @ + 1]
    ELSE [w EXCEPT !.reads = @ + 1]

\* the keys and the values of a sequence of <<key, value>> pairs, in the
\* order in which lines 60 and 180-181 visit them
KeysAndValues(pairs) ==
    [j \in 1..(2 * Len(pairs)) |->
        IF j % 2 = 1 THEN pairs[(j + 1) \div 2][1] ELSE pairs[j \div 2][2]]

-----------------------------------------------------------------------------
(* format_value (lines 33-69): [text, w], the text being RaisedBase when a *)
(* repr raises an exception that the clause of line 68 does not take.      *)

RECURSIVE FormatValue(_, _, _), FormatEach(_, _, _)

FormatValue(w, value, depth) ==
    LET \* opening, closing (lines 45-50, 66)
        Opening(type) ==
            CASE type = "list" -> <<91>> [] type = "tuple" -> <<40>> [] OTHER -> <<123>>
        Closing(type) ==
            CASE type = "list" -> <<93>> [] type = "tuple" -> <<41>> [] OTHER -> <<125>>
    IN
    IF depth > 2 THEN [text |-> Ellipsis, w |-> w]
    ELSE CASE value.k = "NoneType" -> [text |-> NoneText, w |-> w]
           [] value.k = "bool" -> [text |-> IF value.b THEN TrueText ELSE FalseText, w |-> w]
           [] value.k = "int" ->
                [text |-> IF "pow" \notin DOMAIN value THEN IntRepr(value.n)
                          ELSE IF value.pow + 1 > MaxStrDigits THEN Unrepr("int")
                          ELSE PowRepr(value.pow),
                 w |-> w]
           [] value.k = "float" -> [text |-> FloatRepr(value.h), w |-> w]
           [] value.k = "str" ->
                [text |-> StrRepr(IF Len(value.s) > 60
                                  THEN SubSeq(value.s, 1, 57) \o Ellipsis ELSE value.s),
                 w |-> w]
           [] value.k = "ref" ->
                LET type == w.g[value.id].type IN
                CASE type \in SequenceTypes \cup SetTypes \cup {"dict"} ->
                       \* items = list(value) (line 51), list(value.items()) (line 58)
                       The({ LET items == w1.g[value.id].items
                                 more == IF Len(items) > 6 THEN <<Ellipsis>> ELSE <<>>
                             IN  The({ IF parts.raised THEN [text |-> RaisedBase, w |-> parts.w]
                                       ELSE [text |-> Opening(type)
                                                      \o Join((IF type = "dict"
                                                               THEN [j \in 1..(Len(parts.texts) \div 2) |->
                                                                       parts.texts[2 * j - 1] \o ColonSp
                                                                       \o parts.texts[2 * j]]
                                                               ELSE parts.texts) \o more, CommaSp)
                                                      \o Closing(type),
                                             w |-> parts.w] :
                                       parts \in {FormatEach(w1, IF type = "dict"
                                                                 THEN KeysAndValues(Prefix(items, 6))
                                                                 ELSE Prefix(items, 6),
                                                             depth + 1)} }) :
                             w1 \in {Read(w)} })
                  \* repr(value) raised: the except clause of lines 68-69
                  [] type = "R" -> [text |-> Unrepr("R"), w |-> w]
                  \* repr(value) raised and line 68 does not take it
                  [] type = "B" -> [text |-> RaisedBase, w |-> w]
                  [] OTHER -> [text |-> DefaultRepr(type, value.id), w |-> w]

\* format_value(v, depth) of each v of vs in turn, up to the first call
\* that raises: [texts, raised, w]
FormatEach(w, vs, depth) ==
    IF vs = <<>> THEN [texts |-> <<>>, raised |-> FALSE, w |-> w]
    ELSE The({ IF first.text = RaisedBase
               THEN [texts |-> <<>>, raised |-> TRUE, w |-> first.w]
               ELSE The({ [texts |-> <<first.text>> \o rest.texts, raised |-> rest.raised,
                           w |-> rest.w] :
                          rest \in {FormatEach(first.w, Tail(vs), depth)} }) :
               first \in {FormatValue(w, Head(vs), depth)} })

-----------------------------------------------------------------------------
(* serialize_scalar (lines 123-134).  A call returns a descriptor d        *)
(* (raised = "") or raises: "Exception" for an exception that the clause   *)
(* of line 228 takes, "BaseException" for one it does not.                 *)

SerializeScalar(w, value) ==
    LET IsBig == "pow" \in DOMAIN value IN
    The({ LET Returns(d) == [raised |-> "", d |-> d, w |-> f.w]
              Raises(exc) == [raised |-> exc, w |-> f.w]
              repr == f.text
          IN
          IF repr = RaisedBase THEN Raises("BaseException")
          ELSE CASE value.k = "bool" ->
                      Returns([type |-> "bool", repr |-> repr,
                               numeric |-> IF value.b THEN 1 ELSE 0])
                 [] value.k = "int" ->
                      \* float(value) (line 131): OverflowError
                      IF IsBig /\ value.pow > FloatMaxPow THEN Raises("Exception")
                      ELSE Returns([type |-> "int", repr |-> repr,
                                    numeric |-> IF IsBig
                                                THEN [k |-> "float", pow |-> value.pow]
                                                ELSE FloatV(2 * value.n)])
                 [] value.k = "float" ->
                      Returns([type |-> "float", repr |-> repr, numeric |-> value])
                 [] value.k = "str" ->
                      Returns([type |-> "str", repr |-> repr, length |-> Len(value.s)])
                 [] OTHER ->
                      Returns([type |-> TypeName(w.g, value), repr |-> repr]) :
          f \in {FormatValue(w, value, 0)} })

-----------------------------------------------------------------------------
(* serialize_reference (lines 137-212)                                     *)
(* The heap table is a function from reference ids to heap entries.        *)
(* registered is the history of the executions of `heap[ref] = heap_entry` *)
(* (line 162), each with the depth at which it happened; met is the        *)
(* history of the calls that returned at line 144 or at line 155, each     *)
(* with the value, the depth, whether the value was in the heap table, and *)
(* the descriptor returned.                                                *)

\* ref = f"obj_{obj_id}" (lines 146-147): the model's number of the object
\* stands for id(value), its address
Ref(i) == <<"obj_", i>>

\* heap: Dict[str, Any] = {} (line 271), with its history
NewWalk == [heap |-> [r \in {} |-> NoValue], registered |-> <<>>, met |-> <<>>]

\* depth >= MAX_REFERENCE_DEPTH (line 141)
DepthLimitOffByOne(depth) == depth > MAX_REFERENCE_DEPTH

DepthLimit(depth) == depth >= MAX_REFERENCE_DEPTH

\* ref in heap (line 154)
InHeap(ref, heap) == ref \in DOMAIN heap

\* the state after a call for value returned d without walking it
Met(w, value, depth, d) ==
    [w EXCEPT !.met = Append(@, [value |-> value, depth |-> depth,
                                 known |-> Ref(value.id) \in DOMAIN w.heap, d |-> d])]

RECURSIVE SerializeReference(_, _, _), SerializeEach(_, _, _)

\* serialize_reference(value, heap, depth): [raised, d, w], the descriptor
\* returned (when raised = "") and the state after the call.
SerializeReference(value, w, depth) ==
    IF IsScalar(value) THEN SerializeScalar(w, value)
    ELSE IF DepthLimit(depth)
    THEN The({ IF r.raised # "" THEN r
               ELSE The({ [raised |-> "", d |-> d, w |-> Met(r.w, value, depth, d)] :
                          d \in {[type |-> r.d.type, repr |-> r.d.repr,
                                  truncated |-> TRUE]} }) :
               r \in {SerializeScalar(w, value)} })
    ELSE
      The({
        LET ref == Ref(value.id)
            i == value.id
            type == TypeName(w.g, value)
            repr == f.text
            d == [type |-> type, repr |-> repr, ref |-> ref]
            base == [type |-> type, repr |-> repr, id |-> ref]
            \* heap[ref] = heap_entry (line 162) with the members assigned
            \* before the object's children are visited (lines 157-166,
            \* 174-175, 188, 197, 210): what the heap entry is when an
            \* exception leaves the walk of the children
            Register(u, entry) ==
                [u EXCEPT !.heap = (ref :> entry) @@ @,
                          !.registered = Append(@, [ref |-> ref, depth |-> depth])]
            \* heap_entry[...] = ... after the children (lines 172, 186,
            \* 194-195, 208): the entry is filled in place
            Fill(u, members) == [u EXCEPT !.heap[ref] = members @@ @]
            \* {"truncated": True} of lines 171, 185, 193
            More(n) == IF n > MAX_PREVIEW_ITEMS THEN <<[truncated |-> TRUE]>> ELSE <<>>
        IN  IF repr = RaisedBase THEN [raised |-> "BaseException", w |-> f.w]
            ELSE IF InHeap(ref, f.w.heap)
            THEN [raised |-> "", d |-> d, w |-> Met(f.w, value, depth, d)]
            ELSE
              CASE type \in SequenceTypes \cup {"dict"} ->
                     The({ The({ The({
                         IF walked.raised # ""
                         THEN [raised |-> walked.raised, w |-> walked.w]
                         ELSE \* len(value) > MAX_PREVIEW_ITEMS (lines 170, 184)
                              The({ [raised |-> "", d |-> d,
                                     w |-> Fill(w3,
                                                IF type = "dict"
                                                THEN [entries |->
                                                        [j \in 1..(Len(walked.ds) \div 2) |->
                                                           [key |-> walked.ds[2 * j - 1],
                                                            value |-> walked.ds[2 * j]]]
                                                        \o More(Len(w3.g[i].items))]
                                                ELSE [items |-> walked.ds
                                                                \o More(Len(w3.g[i].items))])] :
                                    w3 \in {Read(walked.w)} }) :
                         walked \in {SerializeEach(
                                        IF type = "dict"
                                        THEN KeysAndValues(Prefix(w2.g[i].items, MAX_PREVIEW_ITEMS))
                                        ELSE Prefix(w2.g[i].items, MAX_PREVIEW_ITEMS),
                                        Register(w2,
                                                 [kind |-> IF type = "dict" THEN "mapping"
                                                           ELSE "sequence",
                                                  length |-> Len(w1.g[i].items)] @@ base),
                                        depth + 1)} }) :
                         \* list(value), list(value.items()) (lines 168, 177)
                         w2 \in {Read(w1)} }) :
                         \* len(value) (lines 166, 175)
                         w1 \in {Read(f.w)} })
                [] type \in SetTypes ->
                     \* iterable = list(value) (line 189)
                     The({ LET iterable == w1.g[i].items IN
                           \* iterable.sort(key=lambda item: format_value(item)) (line 190)
                           The({ IF keys.raised
                                 THEN [raised |-> "BaseException", w |-> keys.w]
                                 ELSE The({ IF walked.raised # ""
                                            THEN [raised |-> walked.raised, w |-> walked.w]
                                            ELSE [raised |-> "", d |-> d,
                                                  w |-> Fill(walked.w,
                                                             [items |-> walked.ds
                                                                        \o More(Len(iterable)),
                                                              length |-> Len(iterable)])] :
                                            walked \in {SerializeEach(
                                                Prefix(Items(StableSortByKey(
                                                           [j \in 1..Len(iterable) |->
                                                              [key |-> keys.texts[j],
                                                               item |-> iterable[j]]])),
                                                       MAX_PREVIEW_ITEMS),
                                                keys.w, depth + 1)} }) :
                                 keys \in {FormatEach(Register(w1,
                                                               [kind |-> "set"] @@ base),
                                                      iterable, 0)} }) :
                           w1 \in {Read(f.w)} })
                [] type \in InstanceTypes ->
                     \* attr_items = list(vars(value).items()) (line 200)
                     The({ LET attr_items == w1.g[i].items
                               shown == Prefix(attr_items, MAX_PREVIEW_ITEMS)
                           IN
                           The({ IF walked.raised # ""
                                 THEN [raised |-> walked.raised, w |-> walked.w]
                                 ELSE LET attributes ==
                                              [j \in 1..Len(shown) |-> <<shown[j][1], walked.ds[j]>>]
                                              \o (IF Len(attr_items) > MAX_PREVIEW_ITEMS
                                                  THEN <<<<Ellipsis, [truncated |-> TRUE]>>>>
                                                  ELSE <<>>)
                                      IN  [raised |-> "", d |-> d,
                                           w |-> IF attributes # <<>>
                                                 THEN Fill(walked.w,
                                                           [attributes |-> attributes])
                                                 ELSE walked.w] :
                                 walked \in {SerializeEach(
                                                [j \in 1..Len(shown) |-> shown[j][2]],
                                                Register(w1,
                                                         [kind |-> "object"] @@ base),
                                                depth + 1)} }) :
                           w1 \in {Read(f.w)} })
                [] OTHER ->
                     [raised |-> "", d |-> d,
                      w |-> Register(f.w, [kind |-> "opaque"] @@ base)] :
        \* format_value(value) of line 150
        f \in {FormatValue(w, value, 0)} })

\* serialize_reference of each value of vs in turn, on the same heap, up to
\* the first call that raises
SerializeEach(vs, w, depth) ==
    IF vs = <<>> THEN [raised |-> "", ds |-> <<>>, w |-> w]
    ELSE The({ IF first.raised # "" THEN [raised |-> first.raised, w |-> first.w]
               ELSE The({ IF rest.raised # "" THEN rest
                          ELSE [raised |-> "", ds |-> <<first.d>> \o rest.ds, w |-> rest.w] :
                          rest \in {SerializeEach(Tail(vs), first.w, depth)} }) :
               first \in {SerializeReference(Head(vs), w, depth)} })

-----------------------------------------------------------------------------
(* sanitize_mapping (lines 215-233)                                        *)
(* A mapping is the sequence of its <<name, value>> items in the order     *)
(* dict.items() yields them; names are distinct.  The result is the        *)
(* sequence of its <<name, descriptor>> items in insertion order.          *)

\* lines 223-225: the names that are skipped
Hidden(name) ==
    name = BuiltinsName \/ (StartsWith(name, Dunder) /\ EndsWith(name, Dunder))

\* items[: MAX_PREVIEW_ITEMS * 4] of the items sorted by name (lines 218-222)
CappedItems(m) == Prefix(SortedByName(m), MAX_PREVIEW_ITEMS * 4)

RECURSIVE Pending(_)
\* the items of the loop of line 222 from the next one that is not skipped
Pending(items) ==
    IF items = <<>> THEN <<>>
    ELSE IF Hidden(Head(items)[1]) THEN Pending(Tail(items))
    ELSE items

\* One turn of the loop for a name that is not skipped (lines 226-232):
\* [raised, d, w] with raised = "" or "BaseException".  When
\* serialize_reference raised an Exception the descriptor is that of lines
\* 229-232, with the repr "<unserializable>".
SanitizeItem(item, w) ==
    LET Unserializable ==
            [type |-> TypeName(w.g, item[2]),
             repr |-> <<60, 117, 110, 115, 101, 114, 105, 97, 108, 105, 122, 97, 98, 108,
                        101, 62>>]
    IN
    The({ CASE r.raised = "" -> r
            [] r.raised = "Exception" ->
                 [raised |-> "", d |-> Unserializable, w |-> r.w]
            [] OTHER -> r :
          r \in {SerializeReference(item[2], w, 0)} })

-----------------------------------------------------------------------------
(* capture_stack (lines 236-255) and the Step of tracer (lines 271-288).   *)
(* frames = [chain |-> the frames from the current one back along f_back,  *)
(*           globals |-> the module's namespace,                           *)
(*           ops |-> the operations the guest has done].                   *)
(* A frame is [fid, file, function, line, locals]; the module's frame has  *)
(* f_locals is f_globals.                                                  *)
(*                                                                         *)
(* One call of tracer, or of sanitize_mapping alone, is followed through   *)
(* tcall, from one call of serialize_reference of line 227 to the next:    *)
(* the guest's other threads run in between, and inside a call between two *)
(* of its reads of an object.  tcall holds the call's                      *)
(* locals: phase (the mapping in hand: "locals" of line 275, "globals" of  *)
(* line 276, "stack" of line 250, "scope" for sanitize_mapping called      *)
(* alone; then "arg" for lines 280-288, "done", or "raised" when an        *)
(* exception left the call), items (what is left of the loop of line 222), *)
(* out (sanitize_mapping's result so far), locals, globals and stack (the  *)
(* Step's members so far, the stack innermost first), chain and seen       *)
(* (capture_stack's current and seen), st (the heap table and its          *)
(* history), bound (history: each name given a descriptor, with the value  *)
(* it had in the snapshot of line 218), during (operations of the guest's  *)
(* threads since the call began).                                          *)

FrameLocals(fs, fr) == IF fr.function = "<module>" THEN fs.globals ELSE fr.locals

Reverse(seq) == [i \in 1..Len(seq) |-> seq[Len(seq) + 1 - i]]

RECURSIVE NextUserFrame(_, _)
\* The while loop of lines 240-253 from the frame Head(chain) on: the chain
\* from the next frame that is appended, <<>> when the loop ends first.
NextUserFrame(chain, seen) ==
    IF chain = <<>> THEN <<>>
    ELSE IF Head(chain).file # USER_FILENAME THEN NextUserFrame(Tail(chain), seen)
    ELSE IF Head(chain).fid \in seen THEN <<>>
    ELSE chain

\* The Step tracer appends (lines 272-287); text is format_value(arg) of
\* line 281 or 286.  The arg of an "exception" event is the tuple (type,
\* value, traceback), modelled by the value raised.
StepOf(g, t, text) ==
    CASE t.event = "return" ->
           [event |-> t.event, line |-> t.frame.line, locals |-> t.locals,
            globals |-> t.globals, stack |-> Reverse(t.stack), heap |-> t.st.heap,
            return_value |-> text]
      [] t.event = "exception" ->
           [event |-> t.event, line |-> t.frame.line, locals |-> t.locals,
            globals |-> t.globals, stack |-> Reverse(t.stack), heap |-> t.st.heap,
            exception |-> [type |-> TypeName(g, t.arg), value |-> text]]
      [] OTHER ->
           [event |-> t.event, line |-> t.frame.line, locals |-> t.locals,
            globals |-> t.globals, stack |-> Reverse(t.stack), heap |-> t.st.heap]

-----------------------------------------------------------------------------
(* SpecHeap: the guest builds an object graph and binds names, up to the   *)
(* call of tracer that takes a Step of it.  Every call builds its Step     *)
(* from the bindings of that moment and a heap table of its own (line      *)
(* 271): a Step owes nothing to the Steps before it.                       *)

\* Objects 1..NObjs: one more than MAX_REFERENCE_DEPTH, so that a chain of
\* them reaches the depth limit with a value that is not in the heap table.
\* Object 0 is the builtins namespace that exec() binds to __builtins__.
NObjs == MAX_REFERENCE_DEPTH + 1
\* operations of the guest (stores and bindings), those of its threads
\* during the call of tracer included
MaxOps == 2
\* stores of the guest's threads during one call of tracer or sanitize_mapping
MaxDuring == 1

NameA == <<97>>     \* "a"
NameB == <<98>>     \* "b"
NameX == <<120>>    \* "x"

\* the namespace exec() starts the program with (line 301), and one object
\* already bound
InitialGlobals ==
    << <<MainName, StrV(MainText)>>, <<BuiltinsName, RefV(0)>>, <<NameA, RefV(1)>> >>

ModuleFrame == [fid |-> 1, file |-> USER_FILENAME, function |-> "<module>",
                line |-> 1, locals |-> <<>>]
LibraryFrame == [fid |-> 2, file |-> "<library>", function |-> "sorted",
                 line |-> 9, locals |-> << <<NameX, IntV(0)>> >>]
FunctionFrame == [fid |-> 3, file |-> USER_FILENAME, function |-> "f",
                  line |-> 2, locals |-> <<>>]

\* some name or object refers to object i
IsReferenced(g, fs, m, i) ==
    LET \* the values item j of object o holds: the key and the value of a
        \* dict's item, the value of an attribute, the item of a list,
        \* tuple or set
        ItemValues(o, j) ==
            CASE g[o].type = "dict" -> {g[o].items[j][1], g[o].items[j][2]}
              [] g[o].type \in InstanceTypes -> {g[o].items[j][2]}
              [] OTHER -> {g[o].items[j]}
    IN
    \/ \E j \in 1..Len(m) : m[j][2] = RefV(i)
    \/ \E j \in 1..Len(fs.globals) : fs.globals[j][2] = RefV(i)
    \/ \E f \in 1..Len(fs.chain) : \E j \in 1..Len(fs.chain[f].locals) :
           fs.chain[f].locals[j][2] = RefV(i)
    \/ \E o \in DOMAIN g : \E j \in 1..Len(g[o].items) : RefV(i) \in ItemValues(o, j)

\* hash(value) works: lists, dicts and sets are unhashable, and so is a
\* tuple or frozenset... of them
RECURSIVE Hashable(_, _)
Hashable(g, v) ==
    IF IsScalar(v) THEN TRUE
    ELSE CASE g[v.id].type \in {"list", "dict", "set"} -> FALSE
           [] g[v.id].type \in {"tuple", "frozenset"} ->
                \A j \in 1..Len(g[v.id].items) : Hashable(g, g[v.id].items[j])
           [] OTHER -> TRUE

\* a and b are one member of a set, one key of a dict: a is b or a == b
\* (numbers by their value, True being 1 and 1.0; strs by their text;
\* tuples item by item; frozensets member by member; any other object is
\* equal to itself alone).  A float is a number of halves, an int 10**e
\* beyond them is equal to itself alone.
RECURSIVE SameKey(_, _, _)
SameKey(g, a, b) ==
    LET Number(v) == v.k \in {"bool", "int", "float"}
        Big(v) == "pow" \in DOMAIN v
        Halves(v) == CASE v.k = "bool" -> IF v.b THEN 2 ELSE 0
                       [] v.k = "int" -> 2 * v.n
                       [] OTHER -> v.h
    IN  IF a.k = "ref" /\ b.k = "ref"
        THEN \/ a.id = b.id
             \/ /\ g[a.id].type = "tuple" /\ g[b.id].type = "tuple"
                /\ Len(g[a.id].items) = Len(g[b.id].items)
                /\ \A j \in 1..Len(g[a.id].items) :
                       SameKey(g, g[a.id].items[j], g[b.id].items[j])
             \/ /\ g[a.id].type \in SetTypes /\ g[b.id].type \in SetTypes
                /\ Len(g[a.id].items) = Len(g[b.id].items)
                /\ \A j \in 1..Len(g[a.id].items) : \E k \in 1..Len(g[b.id].items) :
                       SameKey(g, g[a.id].items[j], g[b.id].items[k])
        ELSE IF a.k = "ref" \/ b.k = "ref" THEN FALSE
        ELSE IF Number(a) /\ Number(b)
        THEN IF Big(a) \/ Big(b) THEN Big(a) /\ Big(b) /\ a.pow = b.pow
             ELSE Halves(a) = Halves(b)
        ELSE a = b

\* seq with x put at position p
InsertAt(seq, p, x) == SubSeq(seq, 1, p - 1) \o <<x>> \o SubSeq(seq, p, Len(seq))

\* The items of object i after a store of v: list.append(v), set.add(v),
\* d["k<n>"] = v, o.f<n> = v (an item of that key or name gets the value, in
\* its place); a tuple or frozenset gets its items when it is built, before
\* anything refers to it.  The items of a set or frozenset are kept in the
\* order in which list(value) yields them, the order of the hash table: the
\* new item's place among the others depends on its hash (for an object, on
\* its address) and is any place; a resize puts the items in any order.
Stored(g, i, v) ==
    LET items == g[i].items
        n == Len(items) + 1
        key == StrV(<<107>> \o Digits(n))
        name == <<102>> \o Digits(n)
        \* set.add that makes the set one of k items resizes its hash table
        \* (set_add_entry: fill * 5 >= mask * 3; set_table_resize: the
        \* smallest power of two above four times the items, so that the
        \* tables of a set grown from empty are of 8, 32, 128... slots):
        \* the 5th, 19th, 77th, 307th... add
        SetResizes(k) == \E e \in 0..12 : k = (3 * (8 * 4^e - 1) + 4) \div 5
        Orders(seq) ==
            { [j \in 1..Len(seq) |-> seq[f[j]]] :
              f \in { h \in [1..Len(seq) -> 1..Len(seq)] :
                        \A a \in 1..Len(seq), b \in 1..Len(seq) : a # b => h[a] # h[b] } }
    IN  CASE g[i].type = "dict" ->
               IF \E j \in 1..Len(items) : SameKey(g, items[j][1], key)
               THEN {[j \in 1..Len(items) |->
                        IF SameKey(g, items[j][1], key) THEN <<items[j][1], v>> ELSE items[j]]}
               ELSE {Append(items, <<key, v>>)}
          [] g[i].type \in InstanceTypes ->
               IF \E j \in 1..Len(items) : items[j][1] = name
               THEN {[j \in 1..Len(items) |->
                        IF items[j][1] = name THEN <<name, v>> ELSE items[j]]}
               ELSE {Append(items, <<name, v>>)}
          [] g[i].type = "set" /\ SetResizes(n) -> Orders(Append(items, v))
          [] g[i].type \in SetTypes -> {InsertAt(items, p, v) : p \in 1..n}
          [] OTHER -> {Append(items, v)}

\* A store of v into object i is possible: the guest has operations left;
\* an object() takes no item; a tuple or frozenset takes items only while
\* nothing refers to it; a set or frozenset takes a hashable value that it
\* does not hold (set.add of a member changes nothing).
CanStore(g, fs, m, i, v) ==
    /\ fs.ops < MaxOps
    /\ g[i].type # "object"
    /\ g[i].type \in {"tuple", "frozenset"} => ~IsReferenced(g, fs, m, i) /\ v # RefV(i)
    /\ g[i].type \in SetTypes =>
           Hashable(g, v) /\ \A j \in 1..Len(g[i].items) : ~SameKey(g, g[i].items[j], v)

\* the graphs a store of v into object i leaves
GraphsAfter(g, i, v) == { [g EXCEPT ![i].items = items] : items \in Stored(g, i, v) }

\* the graph in which each of the objects 1..n that can hold an item holds
\* the next object: a chain of NObjs values when all of them can
RECURSIVE Chained(_, _)
Chained(g, n) ==
    IF n = 0 THEN g
    ELSE The({ IF h[n].type = "object" THEN h
               ELSE The(GraphsAfter(h, n, RefV(n + 1))) :
               h \in {Chained(g, n - 1)} })

\* The objects are of the types of one of three profiles (object i of
\* profile[i]) and empty, or chained; the guest is in its module, or in a
\* function that a library function called from the module.
SerInit ==
    /\ \E profile \in { <<"list", "dict", "C", "ValueError">>,
                        <<"list", "set", "object", "tuple">>,
                        <<"R", "tuple", "frozenset", "B">> },
          chained \in BOOLEAN :
           graph = The({ IF chained THEN Chained(g, NObjs - 1) ELSE g :
                         g \in {[i \in 0..NObjs |->
                                   IF i = 0 THEN [type |-> "dict", items |-> <<>>]
                                   ELSE [type |-> profile[((i - 1) % Len(profile)) + 1],
                                         items |-> <<>>]]} })
    /\ \E chain \in { <<ModuleFrame>>, <<FunctionFrame, LibraryFrame, ModuleFrame>> } :
           frames = [chain |-> chain, globals |-> InitialGlobals, ops |-> 0]
    /\ step = NoValue
    /\ tcall = NoValue

ProcIdle ==
    /\ body = NoValue /\ http = NoResponse /\ sup_pc = "idle" /\ result = NoValue
    /\ child_pc = "none" /\ tracing = FALSE /\ calls = NoCalls /\ steps = NoSteps
    /\ stdout = 0
    /\ msg = NoValue /\ written = 0 /\ inPipe = 0 /\ got = 0 /\ produced = 0
    /\ guest = "none" /\ atExpiry = "waiting" /\ aliveSeen = "unknown"
    /\ limitRaised = FALSE /\ forged = 0

InitHeap ==
    /\ ProcIdle
    /\ SerInit
    /\ mapping = <<>> /\ scope = NoValue

\* The guest's main thread stores v into object i.
GuestStore(i, v) ==
    /\ tcall = NoValue
    /\ CanStore(graph, frames, mapping, i, v)
    /\ graph' \in GraphsAfter(graph, i, v)
    /\ frames' = [frames EXCEPT !.ops = @ + 1]
    /\ UNCHANGED <<step, mapping, scope, tcall, procVars>>

\* name = v in the module's namespace or in the function's locals
BindIn(m, name, v) ==
    IF \E j \in 1..Len(m) : m[j][1] = name
    THEN [j \in 1..Len(m) |-> IF m[j][1] = name THEN <<name, v>> ELSE m[j]]
    ELSE Append(m, <<name, v>>)

GuestBind(name, v) ==
    /\ tcall = NoValue
    /\ frames.ops < MaxOps
    /\ LET frame == Head(frames.chain) IN
       IF name = NameX
       THEN /\ frame.function # "<module>"
            /\ frames' = [frames EXCEPT !.chain[1].locals = BindIn(@, name, v),
                                        !.ops = @ + 1]
       ELSE frames' = [frames EXCEPT !.globals = BindIn(@, name, v), !.ops = @ + 1]
    /\ UNCHANGED <<graph, step, mapping, scope, tcall, procVars>>

\* A thread of the guest stores v into an object that is in use, while the
\* main thread is in tracer or in sanitize_mapping: the interpreter switches
\* threads between the instructions of lines 215-288.  This store lands
\* between two calls of serialize_reference, or before format_value(arg).
GuestThreadStore(i, v) ==
    /\ tcall # NoValue
    /\ tcall.phase \notin {"done", "raised"}
    /\ tcall.during < MaxDuring
    /\ IsReferenced(graph, frames, mapping, i)
    /\ CanStore(graph, frames, mapping, i, v)
    /\ graph' \in GraphsAfter(graph, i, v)
    /\ frames' = [frames EXCEPT !.ops = @ + 1]
    /\ tcall' = [tcall EXCEPT !.during = @ + 1]
    /\ UNCHANGED <<step, mapping, scope, procVars>>

\* A store of a thread of the guest that lands inside a call of
\* serialize_reference (line 227) or of format_value (lines 281, 286): none,
\* or the store of v into object i.
ThreadStores(values) ==
    {[i |-> 0]} \cup { [i |-> i, v |-> v] : i \in 1..NObjs, v \in values }

\* the graphs such a store leaves
InCallGraphs(store) ==
    IF store.i = 0 THEN {graph}
    ELSE IF /\ tcall.during < MaxDuring
            /\ IsReferenced(graph, frames, mapping, store.i)
            /\ CanStore(graph, frames, mapping, store.i, store.v)
         THEN GraphsAfter(graph, store.i, store.v)
         ELSE {}

\* The arg the interpreter passes with an event: None with "call" and
\* "line", the value returned with "return", the exception raised (in a
\* tuple) with "exception".
Args(g, event) ==
    CASE event = "return" -> {NoneV} \cup {RefV(i) : i \in 1..NObjs}
      [] event = "exception" -> {RefV(i) : i \in {j \in 1..NObjs : g[j].type \in ExceptionTypes}}
      [] OTHER -> {NoneV}

\* tracer is called for an event in the current frame and passes the tests
\* of lines 264-269; heap = {} (line 271) and sanitize_mapping(frame.f_locals)
\* begins: lines 218-222.
TracerCall(event, arg) ==
    /\ tcall = NoValue
    /\ TracerOutcome(steps.len, Head(frames.chain).file, event) = "append"
    /\ arg \in Args(graph, event)
    /\ tcall' = [event |-> event, arg |-> arg, frame |-> Head(frames.chain),
                 phase |-> "locals",
                 items |-> CappedItems(FrameLocals(frames, Head(frames.chain))),
                 out |-> <<>>, locals |-> <<>>, globals |-> <<>>, stack |-> <<>>,
                 chain |-> <<>>, seen |-> {}, st |-> NewWalk, bound |-> <<>>,
                 during |-> 0]
    /\ UNCHANGED <<graph, frames, step, mapping, scope, procVars>>

\* One turn of the loop of lines 222-232 for the next name that is not
\* skipped: one call of serialize_reference, inside which a store of a
\* thread of the guest may land, after one of the call's reads and before
\* the next.  An exception that line 228 does not take leaves
\* sanitize_mapping and tracer: no Step is appended.
SanitizeName(store) ==
    /\ tcall # NoValue
    /\ tcall.phase \in {"locals", "globals", "stack", "scope"}
    /\ Pending(tcall.items) # <<>>
    /\ \E next \in InCallGraphs(store) :
       \E item \in {Head(Pending(tcall.items))} :
       \E whole \in {SanitizeItem(item, Begin(tcall.st, graph, graph, 0 - 1))} :
       \E at \in IF store.i = 0 THEN {0 - 1} ELSE 1..(whole.w.reads - 1) :
       \E r \in {IF at < 0 THEN whole
                 ELSE SanitizeItem(item, Begin(tcall.st, graph, next, at))} :
       \E st \in {[heap |-> r.w.heap, registered |-> r.w.registered, met |-> r.w.met]} :
           /\ tcall' = IF r.raised = ""
                       THEN [tcall EXCEPT
                               !.items = Tail(Pending(tcall.items)),
                               !.out = Append(@, <<item[1], r.d>>),
                               !.st = st,
                               !.bound = Append(@, [scope |-> <<tcall.phase, Len(tcall.stack)>>,
                                                    name |-> item[1], value |-> item[2],
                                                    d |-> r.d]),
                               !.during = IF store.i = 0 THEN @ ELSE @ + 1]
                       ELSE [tcall EXCEPT !.phase = "raised", !.st = st,
                                          !.during = IF store.i = 0 THEN @ ELSE @ + 1]
           /\ graph' = next
           /\ frames' = IF store.i = 0 THEN frames ELSE [frames EXCEPT !.ops = @ + 1]
    /\ UNCHANGED <<step, mapping, scope, procVars>>

\* sanitize_mapping returns (line 233) inside tracer, and the next one
\* begins: that of frame.f_globals (line 276), then one for each frame that
\* capture_stack appends (lines 240-253); after the last, lines 254-255.
NextMapping ==
    /\ tcall # NoValue
    /\ tcall.phase \in {"locals", "globals", "stack"}
    /\ Pending(tcall.items) = <<>>
    /\ LET Enter(t, next) ==
               IF next = <<>>
               THEN [t EXCEPT !.phase = "arg", !.items = <<>>, !.out = <<>>, !.chain = <<>>]
               ELSE [t EXCEPT !.phase = "stack", !.chain = next,
                              !.seen = @ \cup {Head(next).fid},
                              !.items = CappedItems(FrameLocals(frames, Head(next))),
                              !.out = <<>>]
       IN  tcall' =
             CASE tcall.phase = "locals" ->
                    [tcall EXCEPT !.locals = tcall.out, !.phase = "globals",
                                  !.items = CappedItems(frames.globals), !.out = <<>>]
               [] tcall.phase = "globals" ->
                    Enter([tcall EXCEPT !.globals = tcall.out],
                          NextUserFrame(frames.chain, {}))
               [] tcall.phase = "stack" ->
                    Enter([tcall EXCEPT !.stack =
                              Append(@, [function |-> Head(tcall.chain).function,
                                         line |-> Head(tcall.chain).line,
                                         locals |-> tcall.out])],
                          NextUserFrame(Tail(tcall.chain), tcall.seen))
    /\ UNCHANGED <<graph, frames, step, mapping, scope, procVars>>

\* Lines 280-288: format_value(arg) of a "return" or an "exception" event,
\* inside which a store of a thread of the guest may land, then
\* steps.append(step); a Step of so few bindings takes no whole unit once
\* pickled.  An exception that format_value does not take leaves tracer.
TracerFinish(store) ==
    /\ tcall # NoValue
    /\ tcall.phase = "arg"
    /\ \E next \in InCallGraphs(store) :
       \E whole \in {IF tcall.event \in {"return", "exception"}
                     THEN FormatValue(Begin(tcall.st, graph, graph, 0 - 1), tcall.arg, 0)
                     ELSE [text |-> <<>>, w |-> Begin(tcall.st, graph, graph, 0 - 1)]} :
       \E at \in IF store.i = 0 THEN {0 - 1} ELSE 1..(whole.w.reads - 1) :
       \E f \in {IF at < 0 THEN whole
                 ELSE FormatValue(Begin(tcall.st, graph, next, at), tcall.arg, 0)} :
           /\ IF f.text = RaisedBase
              THEN /\ tcall' = [tcall EXCEPT !.phase = "raised",
                                             !.during = IF store.i = 0 THEN @ ELSE @ + 1]
                   /\ UNCHANGED <<step, steps>>
              ELSE /\ tcall' = [tcall EXCEPT !.phase = "done",
                                             !.during = IF store.i = 0 THEN @ ELSE @ + 1]
                   /\ step' = StepOf(graph, tcall, f.text)
                   /\ steps' = [len |-> steps.len + 1, units |-> steps.units]
           /\ graph' = next
           /\ frames' = IF store.i = 0 THEN frames ELSE [frames EXCEPT !.ops = @ + 1]
    /\ UNCHANGED <<mapping, scope, body, http, sup_pc, result, child_pc,
                   tracing, calls, stdout, msg, written, inPipe, got, produced, guest,
                   atExpiry, aliveSeen, limitRaised, forged>>

\* The guest stores and binds the int 10**309 and the objects; a thread of
\* the guest stores -3 and object 1 while tracer runs.
NextHeap ==
    \/ \E i \in 1..NObjs, v \in {BigInt(FloatMaxPow + 1)} \cup {RefV(j) : j \in 1..NObjs} :
           GuestStore(i, v)
    \/ \E name \in {NameB, NameX},
          v \in {BigInt(FloatMaxPow + 1)} \cup {RefV(j) : j \in 1..NObjs} : GuestBind(name, v)
    \/ \E i \in 1..NObjs, v \in {IntV(0 - 3), RefV(1)} : GuestThreadStore(i, v)
    \/ \E event \in RecordableEvents \cup {"opcode"},
          arg \in {NoneV} \cup {RefV(j) : j \in 1..NObjs} : TracerCall(event, arg)
    \/ \E store \in ThreadStores({IntV(0 - 3), RefV(1)}) : SanitizeName(store)
    \/ NextMapping
    \/ \E store \in ThreadStores({IntV(0 - 3), RefV(1)}) : TracerFinish(store)

SpecHeap == InitHeap /\ [][NextHeap]_vars

-----------------------------------------------------------------------------
(* Properties of SpecHeap                                                  *)

\* the heap table of the call in hand, with its history
Walk == IF tcall = NoValue THEN NewWalk ELSE tcall.st

\* how many times ref was put into the heap table
TimesRegistered(st, ref) ==
    Cardinality({ j \in 1..Len(st.registered) : st.registered[j].ref = ref })

\* C8: within one Step, two bound names (of the locals, the globals or the
\* stack frames) that refer to the same composite value get descriptors with
\* the same reference id; that id is a key of the Step's heap table, whose
\* entry carries it, and the value was put into the table exactly once.
C8_AliasesShareOneHeapEntry ==
    (tcall # NoValue /\ tcall.phase = "done") =>
        \A i \in 1..Len(tcall.bound), j \in 1..Len(tcall.bound) :
            LET b1 == tcall.bound[i]
                b2 == tcall.bound[j]
            IN  (i # j /\ b1.value.k = "ref" /\ b1.value = b2.value) =>
                    /\ "ref" \in DOMAIN b1.d /\ "ref" \in DOMAIN b2.d
                    /\ b1.d.ref = b2.d.ref
                    /\ b1.d.ref \in DOMAIN step.heap
                    /\ step.heap[b1.d.ref].id = b1.d.ref
                    /\ TimesRegistered(tcall.st, b1.d.ref) = 1

\* the descriptor of a value met again: type, repr and ref, nothing else
ReferenceOnly(e) == DOMAIN e.d = {"type", "repr", "ref"} /\ e.d.ref = Ref(e.value.id)

\* the walk never put a value into the heap table twice and never walked a
\* value at depth MAX_REFERENCE_DEPTH or deeper
WalkIsBounded(st) ==
    /\ \A j \in 1..Len(st.registered) :
           /\ st.registered[j].depth < MAX_REFERENCE_DEPTH
           /\ TimesRegistered(st, st.registered[j].ref) = 1
    /\ DOMAIN st.heap = { st.registered[j].ref : j \in 1..Len(st.registered) }

\* C9 as claimed: the walk ends, expands no value twice and none at depth
\* MAX_REFERENCE_DEPTH or more, and every value met again (a self-reference)
\* is returned as a reference-only descriptor (type, repr, ref).
C9_ReentryIsReferenceOnly ==
    /\ WalkIsBounded(Walk)
    /\ \A j \in 1..Len(Walk.met) : Walk.met[j].known => ReferenceOnly(Walk.met[j])

\* C9 as amended: the walk ends, expands no value twice and none at depth
\* MAX_REFERENCE_DEPTH or more; a value that is not expanded below depth
\* MAX_REFERENCE_DEPTH is one met again, and is returned as a reference-only
\* descriptor (type, repr, ref); a value met at depth MAX_REFERENCE_DEPTH,
\* again or for the first time, is returned as the truncated scalar-style
\* descriptor (type, repr, truncated), without ref.
C9_ReentryBelowDepthLimit ==
    /\ WalkIsBounded(Walk)
    /\ \A j \in 1..Len(Walk.met) :
           IF Walk.met[j].depth < MAX_REFERENCE_DEPTH
           THEN Walk.met[j].known /\ ReferenceOnly(Walk.met[j])
           ELSE /\ Walk.met[j].depth = MAX_REFERENCE_DEPTH
                /\ DOMAIN Walk.met[j].d = {"type", "repr", "truncated"}
                /\ Walk.met[j].d.truncated

\* C9 witness: a Step of a list that contains itself and begins a chain of
\* four values: the list was met again one level down and returned as a
\* reference-only descriptor, and the fourth value, met at depth
\* MAX_REFERENCE_DEPTH and not in the heap table, was cut off.
C9_Witness ==
    /\ tcall # NoValue /\ tcall.phase = "done"
    /\ \E j \in 1..Len(Walk.met), k \in 1..Len(Walk.met) :
           /\ Walk.met[j].known /\ Walk.met[j].depth = 1
           /\ graph[Walk.met[j].value.id].type = "list"
           /\ graph[Walk.met[j].value.id].items[Len(graph[Walk.met[j].value.id].items)]
                  = Walk.met[j].value
           /\ ReferenceOnly(Walk.met[j])
           /\ step.heap[Ref(Walk.met[j].value.id)].items[Len(graph[Walk.met[j].value.id].items)]
                  = Walk.met[j].d
           /\ ~Walk.met[k].known /\ Walk.met[k].depth = MAX_REFERENCE_DEPTH
           /\ DOMAIN Walk.met[k].d = {"type", "repr", "truncated"}
           /\ Walk.met[k].d.truncated

-----------------------------------------------------------------------------
(* Spec: one request.                                                      *)

Init ==
    /\ body \in Bodies
    /\ http = NoResponse
    /\ sup_pc = "idle"
    /\ result = NoValue
    /\ child_pc = "none"
    /\ tracing = FALSE
    /\ calls = NoCalls
    /\ steps = NoSteps
    /\ stdout = 0
    /\ msg = NoValue
    /\ written = 0
    /\ inPipe = 0
    /\ got = 0
    /\ produced = 0
    /\ guest = "none"
    /\ atExpiry = "waiting"
    /\ aliveSeen = "unknown"
    /\ limitRaised = FALSE
    /\ forged = 0
    /\ graph = NoValue /\ frames = NoValue /\ step = NoValue
    /\ mapping = NoValue /\ scope = NoValue /\ tcall = NoValue

\* api_run, lines 354-359, up to execute_code's process.start() (lines 328-330):
\* the child starts in run_user_code with the tracer about to be installed.
ApiRun ==
    /\ sup_pc = "idle" /\ http = NoResponse
    /\ CASE ApiDecision(body) = "raise" ->
              /\ http' = ServerError
              /\ UNCHANGED <<sup_pc, child_pc, tracing, guest>>
         [] ApiDecision(body) = "reject" ->
              /\ http' = InvalidPayload
              /\ UNCHANGED <<sup_pc, child_pc, tracing, guest>>
         [] ApiDecision(body) = "execute" ->
              /\ sup_pc' = "join"
              /\ child_pc' = "exec"
              /\ tracing' = TRUE
              /\ guest' = "running"
              /\ UNCHANGED http
    /\ UNCHANGED <<body, result, calls, steps, stdout, msg, written, inPipe, got,
                   produced, atExpiry, aliveSeen, limitRaised, forged, serVars>>

\* recordable events so far that have no Step in the list and none coming
\* from a call of tracer that passed the test of line 268 and has not
\* appended (below zero: the list holds entries that no event produced)
Unrecorded ==
    produced - steps.len - ((IF calls.main THEN 1 ELSE 0) + calls.threads)

\* The guest's threads run beside run_user_code for as long as the process
\* lives.  What they do to the list steps reaches the result until conn.send
\* pickles it (line 323), before the first write.
ListIsLive == child_pc = "exec" \/ (child_pc = "send" /\ written = 0)

\* steps changes in place; the TraceResult of line 316 holds the same list.
StepsBecome(new) ==
    /\ steps' = new
    /\ msg' = IF msg = NoValue THEN msg ELSE [msg EXCEPT !.trace = new]

\* The guest goes on after it wrote a message of its own to conn: forged
\* counts what it does from then on, short of ending its run.
AfterSend ==
    IF forged > 0
    THEN forged - 1 < MaxAfterSend /\ forged' = forged + 1
    ELSE forged' = forged

\* One instrumentation event in the thread that runs exec() and the start of
\* tracer's answer to it, lines 262-269: the two filters and the test of
\* len(steps).  A call that passes goes on to build its Step (TracerAppend);
\* the thread does nothing else until then.  A TraceLimitExceeded raised by
\* the tracer unsets the trace function and is raised in the guest's frame,
\* where the guest's own try/except or finally may swallow it (caught) or
\* let it leave exec().
GuestEvent(file, event) ==
    /\ child_pc = "exec" /\ ~calls.main
    /\ GuestIsFree \/ (Recordable(file, event) /\ produced < EmptyProgramEvents)
    /\ LET outcome == IF tracing THEN TracerOutcome(steps.len, file, event)
                      ELSE "ignore" IN
       /\ Recordable(file, event) /\ outcome # "append" => Unrecorded < MaxUntraced
       /\ produced' = IF Recordable(file, event) THEN produced + 1 ELSE produced
       /\ limitRaised' = (limitRaised \/ outcome = "raise")
       /\ CASE outcome = "ignore" ->
                 UNCHANGED <<calls, tracing, child_pc, msg, guest>>
            [] outcome = "append" ->
                 /\ calls' = [calls EXCEPT !.main = TRUE]
                 /\ UNCHANGED <<tracing, child_pc, msg, guest>>
            [] outcome = "raise" ->
                 \E caught \in BOOLEAN :
                     IF caught /\ GuestIsFree
                     THEN /\ tracing' = FALSE
                          /\ UNCHANGED <<calls, child_pc, msg, guest>>
                     ELSE EndOfExec(Handler("TraceLimitExceeded"), "limit")
    /\ AfterSend
    /\ UNCHANGED <<body, http, sup_pc, result, steps, stdout, written, inPipe, got,
                   atExpiry, aliveSeen, serVars>>

\* A recordable event of the guest's code in a thread the guest started.
\* sys.settrace (line 302) hooks only the thread that called it: tracer is
\* not called (hooked = FALSE) unless the guest gave the thread the same trace
\* function (threading.settrace(sys.gettrace()) before the start).  Then
\* lines 262-269 run in that thread, beside the main thread and the other
\* threads, on the one list steps.  A TraceLimitExceeded raised there ends or
\* is caught in that thread; its traceback, if printed, is less than a unit.
GuestThreadEvent(hooked) ==
    /\ GuestIsFree /\ ListIsLive
    /\ LET outcome == IF hooked THEN TracerOutcome(steps.len, USER_FILENAME, "line")
                      ELSE "ignore" IN
       /\ IF outcome = "append"
          THEN /\ calls.threads < MaxThreads
               /\ calls' = [calls EXCEPT !.threads = @ + 1]
          ELSE /\ Unrecorded < MaxUntraced
               /\ calls' = calls
       /\ limitRaised' = (limitRaised \/ outcome = "raise")
    /\ produced' = produced + 1
    /\ AfterSend
    /\ UNCHANGED <<body, http, sup_pc, result, child_pc, tracing, steps, stdout, msg,
                   written, inPipe, got, guest, atExpiry, aliveSeen, serVars>>

\* The rest of a call of tracer that passed the test, lines 271-289, in the
\* main thread or in a thread of the guest: the Step is built (Python code,
\* between whose instructions the interpreter switches threads) and appended,
\* whatever the list has grown to since the test.  The Step takes w more
\* units once pickled.  Or an exception leaves lines 271-287 (exc: a
\* __repr__ of the guest that calls sys.exit(), a key of the namespace whose
\* __str__ raises): nothing is appended, the interpreter unsets the trace
\* function of the thread and raises the exception in the guest's frame,
\* where the guest's own try/except may swallow it (caught) or let it leave
\* exec(); in a thread of the guest it ends or is caught in that thread.
TracerAppend(main, exc) ==
    /\ ListIsLive
    /\ IF main THEN calls.main /\ child_pc = "exec" ELSE calls.threads > 0
    /\ IF exc = "none"
       THEN /\ calls' = IF main THEN [calls EXCEPT !.main = FALSE]
                               ELSE [calls EXCEPT !.threads = @ - 1]
            /\ \E w \in 0..(IF GuestIsFree THEN MaxContent - steps.units ELSE 0) :
                   StepsBecome([len |-> steps.len + 1, units |-> steps.units + w])
            /\ UNCHANGED <<child_pc, tracing, guest>>
       ELSE /\ GuestIsFree
            /\ Unrecorded < MaxUntraced
            /\ steps' = steps
            /\ IF main
               THEN \E caught \in BOOLEAN :
                        IF caught
                        THEN /\ tracing' = FALSE
                             /\ calls' = [calls EXCEPT !.main = FALSE]
                             /\ UNCHANGED <<child_pc, msg, guest>>
                        ELSE EndOfExec(Handler(exc),
                                       IF exc = "Exception" THEN "raised"
                                                            ELSE "raised_base")
               ELSE /\ calls' = [calls EXCEPT !.threads = @ - 1]
                    /\ UNCHANGED <<child_pc, tracing, msg, guest>>
    /\ UNCHANGED <<body, http, sup_pc, result, stdout, written, inPipe, got, produced,
                   atExpiry, aliveSeen, limitRaised, forged, serVars>>

\* The guest edits the list steps itself: it is a local of run_user_code, the
\* caller of its module frame (sys._getframe(1).f_locals["steps"]).  It
\* appends an entry of its own (d = 1) or removes one (d = -1).
GuestEditSteps(d) ==
    /\ GuestIsFree /\ ListIsLive
    /\ IF d > 0 THEN 0 - Unrecorded < MaxForeign /\ steps.len < MAX_STEPS + MaxForeign
                ELSE steps.len > 0 /\ Unrecorded < MaxUntraced
    /\ \E u \in 0..MaxContent :
           /\ d < 0 => u <= steps.units
           /\ d > 0 => u >= steps.units
           /\ StepsBecome([len |-> steps.len + d, units |-> u])
    /\ AfterSend
    /\ UNCHANGED <<body, http, sup_pc, result, child_pc, tracing, calls, stdout,
                   written, inPipe, got, produced, guest, atExpiry, aliveSeen,
                   limitRaised, serVars>>

\* The guest calls sys.settrace in the main thread: with None tracer is no
\* longer called there; with the tracer itself (kept from sys.gettrace(), or
\* taken from the caller's frame) it is called again from then on.
GuestSetTrace(on) ==
    /\ child_pc = "exec" /\ GuestIsFree
    /\ tracing # on
    /\ tracing' = on
    /\ AfterSend
    /\ UNCHANGED <<body, http, sup_pc, result, child_pc, calls, steps, stdout, msg,
                   written, inPipe, got, produced, guest, atExpiry, aliveSeen,
                   limitRaised, serVars>>

\* The guest writes n units to sys.stdout, which is stdout_buffer
\* (lines 298-299).
GuestPrint(n) ==
    /\ child_pc = "exec" /\ GuestIsFree
    /\ n > 0 /\ stdout + n <= MaxStdout
    /\ stdout' = stdout + n
    /\ AfterSend
    /\ UNCHANGED <<body, http, sup_pc, result, child_pc, tracing, calls, steps, msg,
                   written, inPipe, got, produced, guest, atExpiry, aliveSeen,
                   limitRaised, serVars>>

\* The guest empties stdout_buffer, which it holds as sys.stdout
\* (sys.stdout.seek(0); sys.stdout.truncate()).
GuestClearStdout ==
    /\ child_pc = "exec" /\ GuestIsFree
    /\ stdout > 0
    /\ stdout' = 0
    /\ AfterSend
    /\ UNCHANGED <<body, http, sup_pc, result, child_pc, tracing, calls, steps, msg,
                   written, inPipe, got, produced, guest, atExpiry, aliveSeen,
                   limitRaised, serVars>>

\* The guest writes a message of its own to conn, the argument of
\* run_user_code, the caller of its module frame
\* (sys._getframe(1).f_locals["conn"].send(...)): it is in the pipe ahead of
\* the message of line 323 and takes less than a unit there.  What it holds
\* (a TraceResult of the guest's making, any other object, a pickle that
\* runs code when loaded) shows when the parent reads it.
GuestSend ==
    /\ child_pc = "exec" /\ GuestIsFree /\ ~calls.main
    /\ produced <= MaxBeforeSend
    /\ forged = 0
    /\ forged' = 1
    /\ UNCHANGED <<body, http, sup_pc, result, child_pc, tracing, calls, steps, stdout,
                   msg, written, inPipe, got, produced, guest, atExpiry, aliveSeen,
                   limitRaised, serVars>>

\* exec() returns: the program ran to its end (lines 304-306, 316-322).
GuestFinish ==
    /\ child_pc = "exec" /\ ~calls.main
    /\ GuestIsFree \/ produced = EmptyProgramEvents
    /\ EndOfExec("normal", "normal")
    /\ UNCHANGED <<body, http, sup_pc, result, steps, stdout, written, inPipe,
                   got, produced, atExpiry, aliveSeen, limitRaised, forged, serVars>>

\* compile() or the program raises and nothing in the guest handles it
\* (lines 300-311).  The class TraceLimitExceeded is within the guest's reach
\* (the tracer's globals): the clause of line 307 takes it whoever raised it.
GuestRaise(exc) ==
    /\ child_pc = "exec" /\ GuestIsFree /\ ~calls.main
    /\ EndOfExec(Handler(exc),
                 CASE exc = "Exception" -> "raised"
                   [] exc = "TraceLimitExceeded" -> "raised_limit"
                   [] OTHER -> "raised_base")
    /\ UNCHANGED <<body, http, sup_pc, result, steps, stdout, written, inPipe,
                   got, produced, atExpiry, aliveSeen, limitRaised, forged, serVars>>

\* The process has ended: nothing is left of its memory (the trace function,
\* the list steps, stdout_buffer).  Of a message it was writing, the pipe
\* holds a fragment.
MemoryGone ==
    /\ tracing' = FALSE /\ calls' = NoCalls /\ steps' = NoSteps /\ stdout' = 0
    /\ msg' = IF child_pc # "send" THEN msg ELSE IF written = 0 THEN NoValue ELSE Fragment

\* conn.send (line 323): the message is pickled whole, then the child writes
\* it; a write blocks while the pipe is full.  What the guest's threads do to
\* the list after the pickling reaches nobody.  After the last unit:
\* conn.close() (line 324), run_user_code returns and the interpreter shuts
\* down.  The list steps and stdout_buffer are within the guest's reach: of
\* what it put there (a lambda, an open file) the pickling may fail
\* (pickled = FALSE); the exception leaves run_user_code, whose result goes
\* with its frame, and nothing is written.
ChildSend(pickled) ==
    /\ child_pc = "send"
    /\ written < Size(msg)
    /\ IF pickled
       THEN /\ inPipe < PipeCapacity
            /\ LET n == Min(Size(msg) - written, PipeCapacity - inPipe) IN
               /\ written' = written + n
               /\ inPipe' = inPipe + n
               /\ child_pc' = IF written + n = Size(msg) THEN "exiting" ELSE "send"
            /\ msg' = msg
       ELSE /\ GuestIsFree /\ written = 0
            /\ child_pc' = "exiting"
            /\ msg' = NoValue
            /\ UNCHANGED <<written, inPipe>>
    /\ calls' = NoCalls
    /\ UNCHANGED <<body, http, sup_pc, result, tracing, steps, stdout, got,
                   produced, guest, atExpiry, aliveSeen, limitRaised, forged, serVars>>

\* The process ends after run_user_code (the target of line 329) is over:
\* the interpreter has joined the guest's non-daemon threads, which takes
\* as long as they run.
ChildExit ==
    /\ child_pc = "exiting"
    /\ child_pc' = "exited"
    /\ MemoryGone
    /\ UNCHANGED <<body, http, sup_pc, result,
                   written, inPipe, got, produced, guest, atExpiry, aliveSeen,
                   limitRaised, forged, serVars>>

\* The child process dies on its own while in run_user_code: os._exit in the
\* guest, a signal, the kernel's out-of-memory killer.  Nothing more is
\* written.
ChildDie ==
    /\ child_pc \in {"exec", "send"}
    /\ child_pc' = "exited"
    /\ guest' = "crashed"
    /\ MemoryGone
    /\ UNCHANGED <<body, http, sup_pc, result, written, inPipe,
                   got, produced, atExpiry, aliveSeen, limitRaised, forged, serVars>>

\* process.join(EXEC_TIMEOUT) returns (line 331): the child has exited, or
\* the wait has expired (time is not modelled: it may expire at any moment)
\* on a child that is alive: waiting in conn.send for room in the pipe
\* ("blocked"), or running, writing or shutting down ("running").
JoinReturns ==
    /\ sup_pc = "join"
    /\ sup_pc' = "is_alive"
    /\ atExpiry' = CASE ChildActivity = "exited" -> "exited"
                      [] ChildActivity = "blocked" -> "blocked"
                      [] OTHER -> "running"
    /\ UNCHANGED <<body, http, result, child_pc, tracing, calls, steps, stdout, msg,
                   written, inPipe, got, produced, guest, aliveSeen, limitRaised,
                   forged, serVars>>

\* if process.is_alive() (line 333)
IsAlive ==
    /\ sup_pc = "is_alive"
    /\ aliveSeen' = IF ChildAlive THEN "alive" ELSE "dead"
    /\ sup_pc' = IF ChildAlive THEN "kill" ELSE "poll"
    /\ UNCHANGED <<body, http, result, child_pc, tracing, calls, steps, stdout, msg,
                   written, inPipe, got, produced, guest, atExpiry, limitRaised,
                   forged, serVars>>

\* The TraceResult of line 336.
TimedOutSalvaging == TraceResult(stdout, steps, ErrTimeout, FALSE, TRUE)

TimedOutResult == TraceResult(0, NoSteps, ErrTimeout, FALSE, TRUE)

\* process.kill(); process.join(); return (lines 334-336)
Kill ==
    /\ sup_pc = "kill"
    /\ child_pc' = IF ChildAlive THEN "killed" ELSE child_pc
    /\ MemoryGone
    /\ result' = TimedOutResult
    /\ sup_pc' = "returned"
    /\ UNCHANGED <<body, http, written, inPipe, got,
                   produced, guest, atExpiry, aliveSeen, limitRaised, forged, serVars>>

\* The TraceResult of line 341.
NoResultProduced == TraceResult(0, NoSteps, ErrNoResult, FALSE, FALSE)

\* if parent_conn.poll() (lines 338-344): data to read (of the message of
\* line 323, or of one the guest wrote) leads to recv, none to the "No
\* result produced" result.
Poll ==
    /\ sup_pc = "poll"
    /\ IF inPipe > 0 \/ forged > 0
       THEN /\ sup_pc' = "recv"
            /\ UNCHANGED result
       ELSE /\ result' = NoResultProduced
            /\ sup_pc' = "returned"
    /\ UNCHANGED <<body, http, child_pc, tracing, calls, steps, stdout, msg, written,
                   inPipe, got, produced, guest, atExpiry, aliveSeen, limitRaised,
                   forged, serVars>>

\* The TraceResults of the guest's making: it sends what it chooses, any
\* text, any list for a trace (one longer than MAX_STEPS too), any error,
\* any flags.
Forgeries ==
    { TraceResult(so, [len |-> n, units |-> 0], err, trunc, tout) :
        so \in 0..MaxStdout, n \in {0, 1, MAX_STEPS + 1, 5000},
        err \in {ErrNone, ErrLimit, ErrTrace, ErrTimeout, ErrNoResult},
        trunc \in BOOLEAN, tout \in BOOLEAN }

\* parent_conn.recv() (line 339) reads the first message of the pipe and
\* unpickles it in the server process; of an incomplete message it waits
\* for the rest.  A message the guest wrote itself comes first: it is a
\* TraceResult of the guest's making ("forgery"), an object that is no
\* TraceResult ("foreign"), or a pickle whose loading raises ("raise") or
\* calls what the guest chose ("run").  The message of line 323 holds the
\* list steps and the text of stdout_buffer, both within the guest's reach:
\* loading what the guest put there may raise or run code as well.
Recv(outcome) ==
    /\ sup_pc = "recv"
    /\ IF forged > 0
       THEN /\ outcome \in {"forgery", "foreign", "raise", "run"}
            /\ UNCHANGED <<inPipe, got>>
       ELSE /\ inPipe > 0
            /\ got' = got + inPipe
            /\ inPipe' = 0
            /\ IF msg # Fragment /\ got + inPipe = Size(msg)
               THEN outcome = "message" \/ (GuestIsFree /\ outcome \in {"raise", "run"})
               ELSE ParentHoldsChildConn /\ outcome = "wait"
    /\ CASE outcome = "message" -> result' = msg /\ sup_pc' = "returned"
         [] outcome = "forgery" -> result' \in Forgeries /\ sup_pc' = "returned"
         [] outcome = "foreign" -> result' = result /\ sup_pc' = "foreign"
         [] outcome = "raise" -> result' = result /\ sup_pc' = "raised"
         [] outcome = "run" -> result' = result /\ sup_pc' = "hijacked"
         [] outcome = "wait" -> UNCHANGED <<result, sup_pc>>
    /\ UNCHANGED <<body, http, child_pc, tracing, calls, steps, stdout, msg, written,
                   produced, guest, atExpiry, aliveSeen, limitRaised, forged, serVars>>

\* api_run, lines 360-367.  execute_code returned a TraceResult: the
\* response is made of it; jsonify raises on a trace that holds what JSON
\* cannot express (a set, bytes: what the guest put into the list steps).
\* execute_code returned an object that is no TraceResult (line 361
\* raises), or raised: Flask answers 500.  After the server process ran the
\* guest's code nothing is known of the response.
ApiRespond(ok) ==
    /\ http = NoResponse
    /\ CASE sup_pc = "returned" ->
              IF ok THEN http' = Response(result)
              ELSE /\ GuestIsFree /\ aliveSeen = "dead" /\ (got > 0 \/ forged > 0)
                   /\ http' = ServerError
         [] sup_pc \in {"foreign", "raised"} -> ok /\ http' = ServerError
         [] OTHER -> FALSE
    /\ UNCHANGED <<body, sup_pc, result, child_pc, tracing, calls, steps, stdout, msg,
                   written, inPipe, got, produced, guest, atExpiry, aliveSeen,
                   limitRaised, forged, serVars>>

Guest ==
    \/ \E file \in {USER_FILENAME, "<library>"}, event \in RecordableEvents \cup {"opcode"} :
           GuestEvent(file, event)
    \/ \E hooked \in BOOLEAN : GuestThreadEvent(hooked)
    \/ \E main \in BOOLEAN, exc \in {"none", "Exception", "BaseException"} :
           TracerAppend(main, exc)
    \/ \E d \in {-1, 1} : GuestEditSteps(d)
    \/ \E on \in BOOLEAN : GuestSetTrace(on)
    \/ \E n \in 1..MaxStdout : GuestPrint(n)
    \/ GuestClearStdout
    \/ GuestSend
    \/ GuestFinish
    \/ \E exc \in {"TraceLimitExceeded", "Exception", "BaseException"} : GuestRaise(exc)

Supervisor ==
    \/ JoinReturns \/ IsAlive \/ Kill \/ Poll
    \/ \E outcome \in {"message", "wait", "forgery", "foreign", "raise", "run"} : Recv(outcome)

Next ==
    \/ ApiRun
    \/ Guest
    \/ (\E pickled \in BOOLEAN : ChildSend(pickled)) \/ ChildExit \/ ChildDie
    \/ Supervisor
    \/ \E ok \in BOOLEAN : ApiRespond(ok)

Spec == Init /\ [][Next]_vars

-----------------------------------------------------------------------------
(* Properties of Spec                                                      *)

Returned == sup_pc = "returned"

\* The guest's run was over when the wait of EXEC_TIMEOUT ended, and the wait
\* did not end in the instant in which the child was free to write.
WithinBudget == atExpiry \in {"exited", "blocked"}

\* execute_code returns what the child sent: the child was gone at line 333
\* and the whole message was read at line 339.
ChildReported ==
    Returned /\ aliveSeen = "dead" /\ msg \notin {NoValue, Fragment} /\ got = Size(msg)

\* C1: a guest program that ends normally within the budget and produces at
\* most MAX_STEPS recordable events gets a result with error null, truncated
\* and timed_out false, and a trace with one Step per event it produced,
\* whatever the size of that result.
C1_NormalRunReturnsTrace ==
    (Returned /\ guest = "normal" /\ WithinBudget /\ produced <= MAX_STEPS)
        => /\ result.error = ErrNone
           /\ result.truncated = FALSE
           /\ result.timed_out = FALSE
           /\ result.trace.len = produced

\* C2: the number of recorded Steps never exceeds MAX_STEPS: not in the
\* child's list, not in the message it sends, not in the result execute_code
\* returns, not in the response.
C2_StepsAtMostCeiling ==
    /\ steps.len <= MAX_STEPS
    /\ msg \notin {NoValue, Fragment} => msg.trace.len <= MAX_STEPS
    /\ result # NoValue => result.trace.len <= MAX_STEPS
    /\ http.status = 200 => http.trace.len <= MAX_STEPS

\* C3: when the guest program produces more recordable events than
\* MAX_STEPS, so that the tracer raises the trace-limit condition, and the
\* child reports, the result has truncated = true and the error that names
\* MAX_STEPS, whatever the guest code does with the raised condition.
C3_OverCeilingIsTruncated ==
    (ChildReported /\ produced > MAX_STEPS /\ limitRaised)
        => /\ result.truncated = TRUE
           /\ result.error = ErrLimit

\* C4 as claimed: whenever the child process is alive when the wait of
\* EXEC_TIMEOUT expires, execute_code kills it, reaps it and returns exactly
\* the fixed timed-out result, with nothing of what the child recorded,
\* printed or sent.
C4_AliveAtExpiryIsKilled ==
    (Returned /\ atExpiry \in {"blocked", "running"})
        => /\ result = [stdout |-> 0, trace |-> NoSteps, error |-> ErrTimeout,
                        truncated |-> FALSE, timed_out |-> TRUE]
           /\ child_pc = "killed"

\* C4 as amended: whenever process.is_alive() (line 333), evaluated after
\* the wait has returned, finds the child alive, execute_code kills it,
\* reaps it and returns exactly the fixed timed-out result, with nothing of
\* what the child recorded, printed or sent; a child that is alive when the
\* wait expires and gone when process.is_alive() is evaluated is not killed:
\* execute_code goes on to the channel and returns the "No result produced"
\* result or what it read there.
C4_TimeoutDiscardsEverything ==
    /\ (Returned /\ aliveSeen = "alive")
           => /\ result = [stdout |-> 0, trace |-> NoSteps, error |-> ErrTimeout,
                           truncated |-> FALSE, timed_out |-> TRUE]
              /\ ~ChildAlive
    /\ aliveSeen = "dead"
           => /\ child_pc # "killed"
              /\ Returned =>
                     \/ result = NoResultProduced /\ got = 0 /\ forged = 0
                     \/ result = msg /\ got = Size(msg)
                     \/ result \in Forgeries /\ forged > 0

\* C4 witness: a child killed inside conn.send, whose program had produced
\* events and which left part of its message in the pipe; the timed-out
\* result was returned.
C4_Witness ==
    /\ Returned /\ aliveSeen = "alive" /\ child_pc = "killed"
    /\ atExpiry \in {"blocked", "running"}
    /\ produced > 0 /\ msg = Fragment /\ inPipe > 0
    /\ result.timed_out

\* C5: execute_code always goes on to return: in no reachable state is it
\* neither returned nor able to take its next step, whatever the child did
\* (ran to its end, looped, or died before, during or after its send).
C5_ExecuteCodeNeverStuck ==
    sup_pc \in {"idle", "returned"} \/ ENABLED Supervisor

\* C6: a guest program that raises an unhandled exception within the budget
\* still has its Trace sent whole, and the result is that Trace: the
\* formatted error text, the Steps of the child's list, truncated = false,
\* timed_out = false.
C6_UnhandledExceptionIsReported ==
    (Returned /\ guest \in {"raised", "raised_base"} /\ WithinBudget)
        => /\ msg \notin {NoValue, Fragment} /\ written = Size(msg)
           /\ result.error = ErrTrace
           /\ result.trace = msg.trace
           /\ result.truncated = FALSE
           /\ result.timed_out = FALSE

\* The body is a JSON object whose "code" member is a string.
HasStringCode(b) == b.json = "object" /\ b.code = "str"

\* C7: a request whose body has no string "code" is answered with HTTP 400
\* and the invalid-payload shape, and starts no execution.
C7_BadPayloadIsRejected ==
    ~HasStringCode(body)
        => /\ sup_pc = "idle" /\ child_pc = "none"
           /\ http # NoResponse => http = InvalidPayload


-----------------------------------------------------------------------------
(* SpecScope: sanitize_mapping applied to a binding mapping with many      *)
(* names: the globals of the module (which exec() starts with __name__ and *)
(* __builtins__) or the locals of a function.                              *)

\* names of each family a mapping may bind
MaxLower == 25
MaxUpper == 2
MaxOdd == 4
MaxDunder == 1

LowerName(i) == <<118>> \o Digits(i)     \* "v1", "v2", ...
UpperName(i) == <<86>> \o Digits(i)      \* "V1", "V2", ...
\* "_", "__p", "p__", "__"
OddNames == << <<95>>, <<95, 95, 112>>, <<112, 95, 95>>, <<95, 95>> >>
\* "__doc__", "__file__"
DunderNames == << <<95, 95, 100, 111, 99, 95, 95>>,
                  <<95, 95, 102, 105, 108, 101, 95, 95>> >>

\* what the odd names are bound to: True, the str of a double quote, a
\* backslash and a single quote, the str of U+200B, U+00E9, U+E000, U+1F600,
\* U+10FFFF, U+00A0 and U+007F, and None
OddValues ==
    << BoolV(TRUE), StrV(<<34, 92, 39>>),
       StrV(<<8203, 233, 57344, 128512, 1114111, 160, 127>>), NoneV >>

\* The mapping after the guest bound nl lower-case names (to ints and
\* floats of either sign), nd dunder names, nu upper-case names (to a list
\* and to the int 10**309) and no odd names, in that order: items() yields
\* insertion order, which is not the sorted order.  A module's namespace
\* begins with what exec() starts the program with (line 301).
MakeMapping(module, nl, nd, nu, no) ==
    (IF module THEN << <<MainName, StrV(MainText)>>, <<BuiltinsName, RefV(0)>> >> ELSE <<>>)
    \o [i \in 1..nl |-> <<LowerName(i),
                          CASE i % 4 = 1 -> IntV(i)
                            [] i % 4 = 2 -> FloatV(0 - i)
                            [] i % 4 = 3 -> IntV(0 - i)
                            [] OTHER -> FloatV(i)>>]
    \o [i \in 1..Min(nd, Len(DunderNames)) |-> <<DunderNames[i], NoneV>>]
    \o [i \in 1..nu |-> <<UpperName(i),
                          IF i % 2 = 1 THEN RefV(1) ELSE BigInt(FloatMaxPow + 1)>>]
    \o [i \in 1..Min(no, Len(OddNames)) |-> <<OddNames[i], OddValues[i]>>]

InitScope ==
    /\ ProcIdle
    /\ graph = [i \in 0..NObjs |-> IF i = 0 THEN [type |-> "dict", items |-> <<>>]
                                    ELSE [type |-> "list", items |-> <<>>]]
    /\ frames = [chain |-> <<>>, globals |-> <<>>, ops |-> 0]
    /\ step = NoValue
    /\ \E module \in BOOLEAN, nl \in 0..MaxLower, nd \in 0..MaxDunder,
          nu \in 0..MaxUpper, no \in 0..MaxOdd :
           mapping = MakeMapping(module, nl, nd, nu, no)
    /\ scope = NoValue
    /\ tcall = NoValue

\* sanitize_mapping(mapping, heap) is called with a fresh heap table:
\* lines 216-222
ScopeCall ==
    /\ tcall = NoValue
    /\ tcall' = [phase |-> "scope", items |-> CappedItems(mapping), out |-> <<>>,
                 stack |-> <<>>, st |-> NewWalk, bound |-> <<>>, during |-> 0]
    /\ UNCHANGED <<graph, frames, step, mapping, scope, procVars>>

\* return result (line 233)
ScopeReturn ==
    /\ tcall # NoValue
    /\ tcall.phase = "scope"
    /\ Pending(tcall.items) = <<>>
    /\ scope' = [result |-> tcall.out]
    /\ tcall' = [tcall EXCEPT !.phase = "done"]
    /\ UNCHANGED <<graph, frames, step, mapping, procVars>>

NextScope ==
    \/ ScopeCall
    \/ \E store \in ThreadStores({IntV(0 - 3), RefV(1)}) : SanitizeName(store)
    \/ \E i \in 1..NObjs, v \in {IntV(0 - 3), RefV(1)} : GuestThreadStore(i, v)
    \/ ScopeReturn

SpecScope == InitScope /\ [][NextScope]_vars

-----------------------------------------------------------------------------
(* Properties of SpecScope                                                 *)

Names(items) == [j \in 1..Len(items) |-> items[j][1]]

Visible(pair) == ~Hidden(pair[1])

\* C10: sanitize_mapping drops the hidden names and then caps: the result's
\* keys are exactly the first min(24, n) names, in sorted order, of the n
\* bindings that are not hidden.
C10_HiddenNamesTakeNoPlace ==
    scope # NoValue
        => Names(scope.result)
             = Names(Prefix(SortedByName(SelectSeq(mapping, Visible)),
                            MAX_PREVIEW_ITEMS * 4))

====
